---- MODULE Spec2Model ----
(***************************************************************************)
(* EU-GDPR-Git-Validator: the history scanner (GitScanner), the rule       *)
(* engine (GDPRAnalyser) and the quick checker (ComplianceChecker).        *)
(*                                                                         *)
(* Text is modelled as a sequence of one-character strings so that         *)
(* split('@'), lower() and endswith() are computed, not assumed.           *)
(* Python dicts are records (dicts keyed by article number are functions), *)
(* Python lists are sequences, Python sets are sets.  Wall-clock           *)
(* timestamps (datetime.now()) are left out of the result records.         *)
(***************************************************************************)
EXTENDS Integers, Sequences, FiniteSets, TLC

(***************************************************************************)
(* Bounds                                                                  *)
(***************************************************************************)
MaxArticles == 3
MaxCommits == 2
MaxHistory == 4
MaxSample == 2
MaxScans == 2

(***************************************************************************)
(* Generic helpers for Python lists, sets and dict.get                     *)
(***************************************************************************)
Range(s) == { s[i] : i \in 1..Len(s) }

SeqsUpTo(S, n) == UNION { [1..k -> S] : k \in 0..n }

\* list(a_set): every element once, in an order the runtime chooses
Orderings(S) == { s \in [1..Cardinality(S) -> S] : Range(s) = S }

\* dict.get(key, default)
Get(d, key, default) == IF key \in DOMAIN d THEN d[key] ELSE default

RECURSIVE SumSeq(_)
SumSeq(s) == IF s = <<>> THEN 0 ELSE s[1] + SumSeq(Tail(s))

RECURSIVE Flatten(_)
Flatten(ss) == IF ss = <<>> THEN <<>> ELSE ss[1] \o Flatten(Tail(ss))

(***************************************************************************)
(* GDPRAnalyser                                                            *)
(***************************************************************************)
gdpr_articles ==
    ( 6  :> [title |-> "Lawful basis for processing"] ) @@
    ( 13 :> [title |-> "Information to be provided where personal data are collected from the data subject"] ) @@
    ( 14 :> [title |-> "Information to be provided where personal data have not been obtained from the data subject"] ) @@
    ( 17 :> [title |-> "Right to erasure (right to be forgotten)"] ) @@
    ( 20 :> [title |-> "Right to data portability"] )

Violation(t, d, a, s) == [type |-> t, description |-> d, article |-> a, severity |-> s]

\* mutant: potential_pii is not looked at
has_personal_data_without_pii(scan_results) ==
    LET personal_data == Get(scan_results, "personal_data", [x \in {} |-> <<>>])
    IN  \/ Len(Get(personal_data, "emails", <<>>)) > 0
        \/ Len(Get(personal_data, "authors", <<>>)) > 0

has_personal_data(scan_results) ==
    LET personal_data == Get(scan_results, "personal_data", [x \in {} |-> <<>>])
    IN  \/ Len(Get(personal_data, "emails", <<>>)) > 0
        \/ Len(Get(personal_data, "authors", <<>>)) > 0
        \/ Len(Get(personal_data, "potential_pii", <<>>)) > 0

check_article_6_compliance(scan_results) ==
    LET has_data == has_personal_data(scan_results)
        violations ==
            (IF has_data
             THEN << Violation("missing_lawful_basis",
                               "No explicit lawful basis identified for processing personal data in Git commits",
                               "6(1)", "high") >>
             ELSE <<>>)
            \o << Violation("no_consent_mechanism",
                            "Git workflow lacks mechanism for obtaining explicit consent for data processing",
                            "6(1)(a)", "medium") >>
        recommendations ==
            IF has_data
            THEN << "Establish explicit lawful basis for processing contributor personal data",
                    "Consider implementing contributor agreements that specify data processing purposes",
                    "Document legitimate interests assessment if relying on Article 6(1)(f)",
                    "Implement data minimization strategies for commit metadata" >>
            ELSE <<>>
        severity_score == (IF has_data THEN 8 ELSE 0) + 5
    IN  [ article |-> 6,
          title |-> gdpr_articles[6].title,
          compliant |-> (Len(violations) = 0),
          violations |-> violations,
          recommendations |-> recommendations,
          severity_score |-> severity_score,
          details |-> [ personal_data_detected |-> has_data,
                        lawful_basis_documented |-> FALSE,
                        consent_mechanism_present |-> FALSE ] ]

article_13_violations ==
            << Violation("missing_privacy_notice",
                         "No privacy notice provided to contributors about data collection",
                         "13(1)", "high"),
               Violation("unclear_processing_purposes",
                         "Processing purposes for contributor data not clearly communicated",
                         "13(1)(c)", "medium"),
               Violation("missing_retention_information",
                         "No information provided about data retention periods",
                         "13(2)(a)", "medium"),
               Violation("missing_rights_information",
                         "Contributors not informed of their data protection rights",
                         "13(2)(b)", "medium") >>

article_13_recommendations ==
            << "Create comprehensive privacy notice for repository contributors",
               "Clearly communicate data processing purposes in contribution guidelines",
               "Inform contributors about data retention policies",
               "Provide clear information about data subject rights and how to exercise them",
               "Include privacy information in README.md or CONTRIBUTING.md files" >>

\* mutant: the severity contribution follows the evidence
check_article_13_compliance_by_evidence(scan_results) ==
    [ article |-> 13,
      title |-> gdpr_articles[13].title,
      compliant |-> FALSE,
      violations |-> article_13_violations,
      recommendations |-> article_13_recommendations,
      severity_score |-> IF has_personal_data(scan_results) THEN 20 ELSE 12,
      details |-> [ privacy_notice_present |-> FALSE,
                    processing_purposes_clear |-> FALSE,
                    retention_period_specified |-> FALSE,
                    rights_information_provided |-> FALSE ] ]

check_article_13_compliance(scan_results) ==
    [ article |-> 13,
      title |-> gdpr_articles[13].title,
      compliant |-> FALSE,
      violations |-> article_13_violations,
      recommendations |-> article_13_recommendations,
      severity_score |-> 20,
      details |-> [ privacy_notice_present |-> FALSE,
                    processing_purposes_clear |-> FALSE,
                    retention_period_specified |-> FALSE,
                    rights_information_provided |-> FALSE ] ]

\* mutant: a single indicator does not count as cross-border evidence
check_article_14_compliance_more_than_one(scan_results) ==
    LET cross_border == Get(scan_results, "cross_border_indicators", <<>>)
        violations ==
            IF Len(cross_border) > 1
            THEN << Violation("fork_data_collection",
                              "Personal data collected through forks without informing original contributors",
                              "14(1)", "high"),
                    Violation("missing_source_information",
                              "Source of personal data not communicated to affected individuals",
                              "14(2)(f)", "medium") >>
            ELSE <<>>
        severity_score == IF Len(cross_border) > 1 THEN 12 ELSE 0
        recommendations ==
            << "Implement notification mechanism for fork-based data collection",
               "Document data sources in repository metadata",
               "Provide clear information about how personal data propagates through forks" >>
    IN  [ article |-> 14,
          title |-> gdpr_articles[14].title,
          compliant |-> (Len(violations) = 0),
          violations |-> violations,
          recommendations |-> recommendations,
          severity_score |-> severity_score,
          details |-> [ fork_data_collection_detected |-> (Len(cross_border) > 0),
                        source_information_provided |-> FALSE,
                        notification_mechanism_present |-> FALSE ] ]

check_article_14_compliance(scan_results) ==
    LET cross_border == Get(scan_results, "cross_border_indicators", <<>>)
        violations ==
            IF cross_border # <<>>
            THEN << Violation("fork_data_collection",
                              "Personal data collected through forks without informing original contributors",
                              "14(1)", "high"),
                    Violation("missing_source_information",
                              "Source of personal data not communicated to affected individuals",
                              "14(2)(f)", "medium") >>
            ELSE <<>>
        severity_score == IF cross_border # <<>> THEN 12 ELSE 0
        recommendations ==
            << "Implement notification mechanism for fork-based data collection",
               "Document data sources in repository metadata",
               "Provide clear information about how personal data propagates through forks" >>
    IN  [ article |-> 14,
          title |-> gdpr_articles[14].title,
          compliant |-> (Len(violations) = 0),
          violations |-> violations,
          recommendations |-> recommendations,
          severity_score |-> severity_score,
          details |-> [ fork_data_collection_detected |-> (Len(cross_border) > 0),
                        source_information_provided |-> FALSE,
                        notification_mechanism_present |-> FALSE ] ]

article_17_violations ==
            << Violation("erasure_impossible",
                         "Git's distributed architecture makes data erasure technically impossible",
                         "17(1)", "critical"),
               Violation("permanent_hash_references",
                         "Git hashes create permanent, immutable references to personal data",
                         "17(1)", "high"),
               Violation("fork_propagation",
                         "Personal data propagated across forks cannot be centrally erased",
                         "17(2)", "critical") >>

article_17_recommendations ==
            << "Document technical impossibility of data erasure in privacy notices",
               "Implement data minimization strategies to reduce personal data exposure",
               "Consider using pseudonymization techniques for contributor identification",
               "Provide alternative mechanisms for data subject rights where erasure is impossible",
               "Implement .mailmap files to reduce email exposure" >>

\* mutant: nothing to erase, nothing violated
check_article_17_compliance_by_evidence(scan_results) ==
    [ article |-> 17,
      title |-> gdpr_articles[17].title,
      compliant |-> ~has_personal_data(scan_results),
      violations |-> IF has_personal_data(scan_results) THEN article_17_violations ELSE <<>>,
      recommendations |-> article_17_recommendations,
      severity_score |-> 25,
      details |-> [ erasure_technically_possible |-> FALSE,
                    hash_permanence_issue |-> TRUE,
                    fork_propagation_prevents_erasure |-> TRUE,
                    alternative_mechanisms_available |-> FALSE ] ]

check_article_17_compliance(scan_results) ==
    [ article |-> 17,
      title |-> gdpr_articles[17].title,
      compliant |-> FALSE,
      violations |-> article_17_violations,
      recommendations |-> article_17_recommendations,
      severity_score |-> 25,
      details |-> [ erasure_technically_possible |-> FALSE,
                    hash_permanence_issue |-> TRUE,
                    fork_propagation_prevents_erasure |-> TRUE,
                    alternative_mechanisms_available |-> FALSE ] ]

check_article_20_compliance(scan_results) ==
    LET violations ==
            << Violation("limited_portability",
                         "Git format provides limited data portability for personal information",
                         "20(1)", "medium"),
               Violation("no_structured_export",
                         "No mechanism to export personal data in structured, commonly used format",
                         "20(1)", "medium") >>
        recommendations ==
            << "Implement structured data export functionality for contributor information",
               "Provide JSON/CSV export options for personal data",
               "Document data portability limitations in privacy notices",
               "Consider implementing API for data subject access requests" >>
    IN  [ article |-> 20,
          title |-> gdpr_articles[20].title,
          compliant |-> FALSE,
          violations |-> violations,
          recommendations |-> recommendations,
          severity_score |-> 8,
          details |-> [ structured_format_available |-> TRUE,
                        machine_readable |-> TRUE,
                        commonly_used_format |-> FALSE,
                        transmission_capability |-> TRUE ] ]

check_article_compliance(scan_results, article) ==
    CASE article = 6  -> check_article_6_compliance(scan_results)
      [] article = 13 -> check_article_13_compliance(scan_results)
      [] article = 14 -> check_article_14_compliance(scan_results)
      [] article = 17 -> check_article_17_compliance(scan_results)
      [] article = 20 -> check_article_20_compliance(scan_results)
      [] OTHER -> [ article |-> article,
                    compliant |-> FALSE,
                    violations |-> << "Article " \o ToString(article) \o " not supported" >>,
                    recommendations |-> <<>>,
                    severity_score |-> 0 ]

\* mutant: strict comparisons
calculate_severity_level_strict(severity_score) ==
    IF severity_score > 20 THEN "critical"
    ELSE IF severity_score > 15 THEN "high"
    ELSE IF severity_score > 10 THEN "medium"
    ELSE IF severity_score > 5 THEN "low"
    ELSE "minimal"

calculate_severity_level(severity_score) ==
    IF severity_score >= 20 THEN "critical"
    ELSE IF severity_score >= 15 THEN "high"
    ELSE IF severity_score >= 10 THEN "medium"
    ELSE IF severity_score >= 5 THEN "low"
    ELSE "minimal"

DefaultArticles == << 6, 13, 14, 17, 20 >>

\* mutant: the flag of the last evaluated article wins
RECURSIVE analyze_loop_last_flag(_, _, _)
analyze_loop_last_flag(scan_results, articles, acc) ==
    IF articles = <<>> THEN acc
    ELSE LET article == Head(articles)
             result == check_article_compliance(scan_results, article)
             acc1 == IF article \in DOMAIN gdpr_articles
                     THEN [ acc EXCEPT
                              !.article_results = (article :> result) @@ @,
                              !.overall_compliance = result.compliant,
                              !.violations = IF result.compliant THEN @ ELSE @ \o result.violations,
                              !.severity_score = IF result.compliant THEN @ ELSE @ + result.severity_score,
                              !.recommendations = @ \o result.recommendations ]
                     ELSE acc
         IN  analyze_loop_last_flag(scan_results, Tail(articles), acc1)

\* mutant: the score is assigned, not accumulated
RECURSIVE analyze_loop_last_score(_, _, _)
analyze_loop_last_score(scan_results, articles, acc) ==
    IF articles = <<>> THEN acc
    ELSE LET article == Head(articles)
             result == check_article_compliance(scan_results, article)
             acc1 == IF article \in DOMAIN gdpr_articles
                     THEN [ acc EXCEPT
                              !.article_results = (article :> result) @@ @,
                              !.overall_compliance = IF result.compliant THEN @ ELSE FALSE,
                              !.violations = IF result.compliant THEN @ ELSE @ \o result.violations,
                              !.severity_score = IF result.compliant THEN @ ELSE result.severity_score,
                              !.recommendations = @ \o result.recommendations ]
                     ELSE acc
         IN  analyze_loop_last_score(scan_results, Tail(articles), acc1)

\* one pass of the loop body of analyze_compliance over the article list
RECURSIVE analyze_loop(_, _, _)
analyze_loop(scan_results, articles, acc) ==
    IF articles = <<>> THEN acc
    ELSE LET article == Head(articles)
             result == check_article_compliance(scan_results, article)
             acc1 == IF article \in DOMAIN gdpr_articles
                     THEN [ acc EXCEPT
                              !.article_results = (article :> result) @@ @,
                              !.overall_compliance = IF result.compliant THEN @ ELSE FALSE,
                              !.violations = IF result.compliant THEN @ ELSE @ \o result.violations,
                              !.severity_score = IF result.compliant THEN @ ELSE @ + result.severity_score,
                              !.recommendations = @ \o result.recommendations ]
                     ELSE acc
         IN  analyze_loop(scan_results, Tail(articles), acc1)

\* the optional argument "articles": None, or a list
NoArticles == [ none |-> TRUE ]

Articles(list) == [ none |-> FALSE, list |-> list ]

analyze_compliance(scan_results, articles_arg) ==
    LET articles == IF articles_arg.none THEN DefaultArticles ELSE articles_arg.list
        init == [ articles_checked |-> articles,
                  overall_compliance |-> TRUE,
                  violations |-> <<>>,
                  article_results |-> [a \in {} |-> 0],
                  recommendations |-> <<>>,
                  severity_score |-> 0 ]
        looped == analyze_loop(scan_results, articles, init)
    IN  [ articles_checked |-> looped.articles_checked,
          overall_compliance |-> looped.overall_compliance,
          violations |-> looped.violations,
          article_results |-> looped.article_results,
          recommendations |-> looped.recommendations,
          severity_score |-> looped.severity_score,
          severity_level |-> calculate_severity_level(looped.severity_score) ]

(***************************************************************************)
(* ComplianceChecker                                                       *)
(***************************************************************************)
quick_checks ==
    ( 6  :> [name |-> "Lawful Basis"] ) @@
    ( 13 :> [name |-> "Transparency (Data from Subject)"] ) @@
    ( 14 :> [name |-> "Transparency (Data Not from Subject)"] ) @@
    ( 17 :> [name |-> "Right to Erasure"] ) @@
    ( 20 :> [name |-> "Data Portability"] )

check_article_6_quick(scan_results) ==
    LET personal_data == Get(scan_results, "personal_data", [x \in {} |-> <<>>])
        has_data ==
            \/ Len(Get(personal_data, "emails", <<>>)) > 0
            \/ Len(Get(personal_data, "authors", <<>>)) > 0
        check_results == [ has_privacy_policy |-> FALSE,
                           documents_lawful_basis |-> FALSE,
                           has_consent_mechanism |-> FALSE,
                           legitimate_interests_assessment |-> FALSE ]
        issues ==
            (IF ~check_results.has_privacy_policy
             THEN << "No privacy policy or data processing notice found" >> ELSE <<>>) \o
            (IF ~check_results.documents_lawful_basis
             THEN << "No explicit lawful basis documented for processing personal data" >> ELSE <<>>) \o
            (IF ~check_results.has_consent_mechanism
             THEN << "No mechanism for obtaining explicit consent" >> ELSE <<>>) \o
            (IF ~check_results.legitimate_interests_assessment
             THEN << "No legitimate interests assessment documented" >> ELSE <<>>)
        recommendations ==
            (IF ~check_results.has_privacy_policy
             THEN << "Create a privacy policy documenting data processing activities" >> ELSE <<>>) \o
            (IF ~check_results.documents_lawful_basis
             THEN << "Document the lawful basis for processing contributor data (e.g., legitimate interests)" >> ELSE <<>>) \o
            (IF ~check_results.has_consent_mechanism
             THEN << "Implement contributor agreement or consent mechanism" >> ELSE <<>>) \o
            (IF ~check_results.legitimate_interests_assessment
             THEN << "Conduct and document legitimate interests assessment if relying on Article 6(1)(f)" >> ELSE <<>>)
        compliant == (Len(issues) = 0)
    IN  [ compliant |-> compliant,
          issues |-> issues,
          recommendations |-> recommendations,
          check_results |-> check_results,
          severity |-> IF has_data /\ ~compliant THEN "high" ELSE "medium" ]

check_article_13_quick(scan_results) ==
    LET check_results == [ privacy_notice_present |-> FALSE,
                           processing_purposes_clear |-> FALSE,
                           controller_identity_clear |-> FALSE,
                           retention_period_specified |-> FALSE,
                           rights_information_provided |-> FALSE ]
        issues ==
            (IF ~check_results.privacy_notice_present
             THEN << "No privacy notice provided to contributors" >> ELSE <<>>) \o
            (IF ~check_results.processing_purposes_clear
             THEN << "Processing purposes not clearly communicated" >> ELSE <<>>) \o
            (IF ~check_results.controller_identity_clear
             THEN << "Data controller identity not clearly specified" >> ELSE <<>>) \o
            (IF ~check_results.retention_period_specified
             THEN << "Data retention period not specified" >> ELSE <<>>) \o
            (IF ~check_results.rights_information_provided
             THEN << "Data subject rights not communicated" >> ELSE <<>>)
        recommendations ==
            (IF ~check_results.privacy_notice_present
             THEN << "Add privacy notice to README.md or CONTRIBUTING.md" >> ELSE <<>>) \o
            (IF ~check_results.processing_purposes_clear
             THEN << "Clearly state why contributor data is collected and processed" >> ELSE <<>>) \o
            (IF ~check_results.controller_identity_clear
             THEN << "Identify the data controller in repository documentation" >> ELSE <<>>) \o
            (IF ~check_results.retention_period_specified
             THEN << "Document how long contributor data will be retained" >> ELSE <<>>) \o
            (IF ~check_results.rights_information_provided
             THEN << "Inform contributors of their data protection rights" >> ELSE <<>>)
    IN  [ compliant |-> (Len(issues) = 0),
          issues |-> issues,
          recommendations |-> recommendations,
          check_results |-> check_results,
          severity |-> "high" ]

check_article_14_quick(scan_results) ==
    LET cross_border == Get(scan_results, "cross_border_indicators", <<>>)
        has_forks == Len(cross_border) > 0
        check_results == [ third_party_data_notice |-> FALSE,
                           data_source_documented |-> FALSE,
                           processing_purposes_clear |-> FALSE,
                           rights_information_provided |-> FALSE ]
        issues ==
            (IF has_forks /\ ~check_results.third_party_data_notice
             THEN << "No notice provided when collecting data through forks" >> ELSE <<>>) \o
            (IF has_forks /\ ~check_results.data_source_documented
             THEN << "Source of personal data not documented" >> ELSE <<>>) \o
            (IF ~check_results.processing_purposes_clear
             THEN << "Processing purposes not clear for third-party collected data" >> ELSE <<>>) \o
            (IF ~check_results.rights_information_provided
             THEN << "Data subject rights not communicated to affected individuals" >> ELSE <<>>)
        recommendations ==
            (IF has_forks /\ ~check_results.third_party_data_notice
             THEN << "Implement notification mechanism for fork-based data collection" >> ELSE <<>>) \o
            (IF has_forks /\ ~check_results.data_source_documented
             THEN << "Document data sources in repository metadata" >> ELSE <<>>) \o
            (IF ~check_results.processing_purposes_clear
             THEN << "Clarify purposes for processing data obtained through forks" >> ELSE <<>>) \o
            (IF ~check_results.rights_information_provided
             THEN << "Provide mechanism to inform affected individuals of their rights" >> ELSE <<>>)
    IN  [ compliant |-> (Len(issues) = 0),
          issues |-> issues,
          recommendations |-> recommendations,
          check_results |-> check_results,
          severity |-> IF has_forks THEN "medium" ELSE "low" ]

check_article_17_quick(scan_results) ==
    [ compliant |-> FALSE,
      issues |-> << "No data erasure mechanism available",
                    "Technical feasibility of erasure not documented",
                    "No process defined for handling erasure requests",
                    "No process for notifying third parties (forks) about erasure requests" >>,
      recommendations |-> << "Document technical impossibility of data erasure in Git",
                             "Clearly document why data erasure is technically impossible",
                             "Define process for responding to erasure requests with technical limitations",
                             "Implement best-effort notification process for fork maintainers" >>,
      check_results |-> [ erasure_mechanism_available |-> FALSE,
                          technical_feasibility_documented |-> FALSE,
                          exception_handling_defined |-> FALSE,
                          third_party_notification_process |-> FALSE ],
      severity |-> "critical" ]

check_article_20_quick(scan_results) ==
    LET check_results == [ structured_export_available |-> FALSE,
                           machine_readable_format |-> TRUE,
                           commonly_used_format |-> FALSE,
                           automated_transmission |-> FALSE ]
        issues ==
            (IF ~check_results.structured_export_available
             THEN << "No structured data export functionality available" >> ELSE <<>>) \o
            (IF ~check_results.commonly_used_format
             THEN << "Data not available in commonly used format" >> ELSE <<>>) \o
            (IF ~check_results.automated_transmission
             THEN << "No automated data transmission capability" >> ELSE <<>>)
        recommendations ==
            (IF ~check_results.structured_export_available
             THEN << "Implement JSON/CSV export for contributor data" >> ELSE <<>>) \o
            (IF ~check_results.commonly_used_format
             THEN << "Provide data export in standard formats (JSON, CSV, XML)" >> ELSE <<>>) \o
            (IF ~check_results.automated_transmission
             THEN << "Implement API for automated data portability requests" >> ELSE <<>>)
    IN  [ compliant |-> (Len(issues) = 0),
          issues |-> issues,
          recommendations |-> recommendations,
          check_results |-> check_results,
          severity |-> "medium" ]

\* result.update(d): the keys of d replace those of result
Update(result, d) == [ k \in DOMAIN result \cup DOMAIN d |->
                         IF k \in DOMAIN d THEN d[k] ELSE result[k] ]

quick_check_article_compliance(scan_results, article) ==
    IF article \notin DOMAIN quick_checks
    THEN [ article |-> article,
           supported |-> FALSE,
           error |-> "Article " \o ToString(article) \o " not supported for quick checks" ]
    ELSE LET result == [ article |-> article,
                         name |-> quick_checks[article].name,
                         supported |-> TRUE,
                         compliant |-> FALSE,
                         issues |-> <<>>,
                         recommendations |-> <<>>,
                         check_results |-> [x \in {} |-> FALSE],
                         severity |-> "unknown" ]
         IN  CASE article = 6  -> Update(result, check_article_6_quick(scan_results))
               [] article = 13 -> Update(result, check_article_13_quick(scan_results))
               [] article = 14 -> Update(result, check_article_14_quick(scan_results))
               [] article = 17 -> Update(result, check_article_17_quick(scan_results))
               [] article = 20 -> Update(result, check_article_20_quick(scan_results))
               [] OTHER -> result

\* dict iteration order of quick_checks.keys()
QuickCheckOrder == << 6, 13, 14, 17, 20 >>

RECURSIVE check_all_loop(_, _, _)
check_all_loop(scan_results, todo, acc) ==
    IF todo = <<>> THEN acc
    ELSE LET article == Head(todo)
             result == quick_check_article_compliance(scan_results, article)
             withResult == [ acc EXCEPT !.article_results = (article :> result) @@ @ ]
             acc1 ==
                IF ~result.compliant
                THEN [ withResult EXCEPT
                         !.overall_compliant = FALSE,
                         !.summary.non_compliant_articles = Append(@, article),
                         !.total_issues = @ + Len(result.issues),
                         !.critical_issues = IF result.severity = "critical"
                                             THEN @ + Len(result.issues) ELSE @,
                         !.summary.critical_articles = IF result.severity = "critical"
                                                       THEN Append(@, article) ELSE @ ]
                ELSE [ withResult EXCEPT
                         !.summary.compliant_articles = Append(@, article) ]
         IN  check_all_loop(scan_results, Tail(todo), acc1)

check_all_articles(scan_results) ==
    check_all_loop(scan_results, QuickCheckOrder,
                   [ overall_compliant |-> TRUE,
                     total_issues |-> 0,
                     critical_issues |-> 0,
                     article_results |-> [a \in {} |-> 0],
                     summary |-> [ compliant_articles |-> <<>>,
                                   non_compliant_articles |-> <<>>,
                                   critical_articles |-> <<>> ] ])

(***************************************************************************)
(* GitScanner                                                              *)
(*                                                                         *)
(* A text (commit message, patch of one file) is given by what the         *)
(* pattern matchers find in it: emails is email_pattern.findall(text),     *)
(* sensitive is the list of <<pattern_name, match>> the loop over          *)
(* personal_data_patterns produces.  A timestamp is a wall-clock hour      *)
(* count with a UTC offset in hours.                                       *)
(*                                                                         *)
(* A commit also says where the repository access layer raises for it:     *)
(* stats_fail (reading commit.stats raises), diff_fails (the diff against  *)
(* the first parent raises) and file_fails (the index of the changed file  *)
(* whose processing raises, 0 for none).                                   *)
(***************************************************************************)
\* the cap of _scan_commit_history: 10,000 in the source, scaled down to the
\* length of the histories explored here
CommitLimit == 3
DiffFileLimit == 10
SampleHashLimit == 100
HoursPerDay == 24

Str_a_x_de == << "a", "@", "x", ".", "d", "e" >>
Str_b_y_fr == << "b", "@", "y", ".", "f", "r" >>
Str_c_Z_COM == << "c", "@", "Z", ".", "C", "O", "M" >>
Str_d_w_DE == << "d", "@", "w", ".", "D", "E" >>
Str_e_v_it == << "e", "@", "v", ".", "i", "t" >>
Str_f_u_es == << "f", "@", "u", ".", "e", "s" >>

Name_A == << "A" >>
Name_B == << "B" >>

NoText == [ emails |-> <<>>, sensitive |-> <<>> ]

Commit0 ==
    [ hexsha |-> "c0c0",
      author |-> [ name |-> Name_A, email |-> Str_a_x_de ],
      committer |-> [ name |-> Name_A, email |-> Str_a_x_de ],
      authored |-> [ local |-> 50, offset |-> 2 ],
      message |-> [ emails |-> << Str_a_x_de >>, sensitive |-> <<>> ],
      parents |-> <<>>,
      diff_fails |-> FALSE,
      stats_fail |-> FALSE,
      file_fails |-> 0,
      merge_diff |-> <<>>,
      diff |-> <<>> ]

Commit1 ==
    [ hexsha |-> "c1c1",
      author |-> [ name |-> Name_B, email |-> Str_b_y_fr ],
      committer |-> [ name |-> Name_A, email |-> Str_a_x_de ],
      authored |-> [ local |-> 49, offset |-> 0 - 5 ],
      message |-> [ emails |-> << Str_b_y_fr >>,
                    sensitive |-> << << "ssn", "123-45-6789" >> >> ],
      parents |-> << "c0c0" >>,
      diff_fails |-> FALSE,
      stats_fail |-> FALSE,
      file_fails |-> 0,
      merge_diff |-> <<>>,
      diff |-> << [ path |-> "AUTHORS",
                    text |-> [ emails |-> << Str_d_w_DE, Str_a_x_de >>,
                               sensitive |-> << << "ip_address", "10.0.0.1" >> >> ] ] >> ]

Commit2 ==
    [ hexsha |-> "c2c2",
      author |-> [ name |-> Name_A, email |-> Str_a_x_de ],
      committer |-> [ name |-> Name_B, email |-> Str_b_y_fr ],
      authored |-> [ local |-> 100, offset |-> 0 ],
      message |-> NoText,
      parents |-> << "c1c1", "c0c0" >>,
      diff_fails |-> TRUE,
      stats_fail |-> FALSE,
      file_fails |-> 0,
      merge_diff |-> <<>>,
      diff |-> << [ path |-> "README.md",
                    text |-> [ emails |-> << Str_c_Z_COM >>, sensitive |-> <<>> ] ] >> ]

\* reading the stats of this commit raises
Commit3 ==
    [ hexsha |-> "c3c3",
      author |-> [ name |-> Name_B, email |-> Str_b_y_fr ],
      committer |-> [ name |-> Name_B, email |-> Str_b_y_fr ],
      authored |-> [ local |-> 120, offset |-> 1 ],
      message |-> [ emails |-> << Str_d_w_DE >>, sensitive |-> <<>> ],
      parents |-> << "c2c2" >>,
      diff_fails |-> FALSE,
      stats_fail |-> TRUE,
      file_fails |-> 0,
      merge_diff |-> <<>>,
      diff |-> <<>> ]

\* processing the second changed file of this commit raises
Commit4 ==
    [ hexsha |-> "c4c4",
      author |-> [ name |-> Name_A, email |-> Str_a_x_de ],
      committer |-> [ name |-> Name_A, email |-> Str_a_x_de ],
      authored |-> [ local |-> 130, offset |-> 0 ],
      message |-> [ emails |-> << Str_d_w_DE, Str_b_y_fr >>,
                    sensitive |-> << << "phone", "+49 " >> >> ],
      parents |-> << "c3c3" >>,
      diff_fails |-> FALSE,
      stats_fail |-> FALSE,
      file_fails |-> 2,
      merge_diff |-> <<>>,
      diff |-> << [ path |-> "a.txt",
                    text |-> [ emails |-> << Str_c_Z_COM >>,
                               sensitive |-> << << "ssn", "987-65-4321" >> >> ] ],
                  [ path |-> "b.bin",
                    text |-> [ emails |-> << Str_a_x_de >>, sensitive |-> <<>> ] ] >> ]

\* the tip of a branch that is not checked out
Commit5 ==
    [ hexsha |-> "c5c5",
      author |-> [ name |-> Name_B, email |-> Str_d_w_DE ],
      committer |-> [ name |-> Name_B, email |-> Str_d_w_DE ],
      authored |-> [ local |-> 140, offset |-> 0 ],
      message |-> [ emails |-> << Str_c_Z_COM >>, sensitive |-> <<>> ],
      parents |-> << "c0c0" >>,
      diff_fails |-> FALSE,
      stats_fail |-> FALSE,
      file_fails |-> 0,
      merge_diff |-> <<>>,
      diff |-> <<>> ]

\* a merge that changes eleven files against its first parent; merge_diff
\* is its diff against the second parent
Commit6 ==
    [ hexsha |-> "c6c6",
      author |-> [ name |-> Name_B, email |-> Str_b_y_fr ],
      committer |-> [ name |-> Name_B, email |-> Str_b_y_fr ],
      authored |-> [ local |-> 150, offset |-> 0 ],
      message |-> NoText,
      parents |-> << "c4c4", "c5c5" >>,
      diff_fails |-> FALSE,
      stats_fail |-> FALSE,
      file_fails |-> 0,
      merge_diff |-> << [ path |-> "m.txt",
                          text |-> [ emails |-> << Str_f_u_es >>,
                                     sensitive |-> << << "phone", "+34 " >> >> ] ] >>,
      diff |-> [ i \in 1..11 |->
                   [ path |-> "f" \o ToString(i),
                     text |-> IF i = 10
                              THEN [ emails |-> <<>>,
                                     sensitive |-> << << "ip_address", "10.0.0.1" >> >> ]
                              ELSE IF i = 11
                              THEN [ emails |-> << Str_e_v_it >>,
                                     sensitive |-> << << "ssn", "111-22-3333" >> >> ]
                              ELSE NoText ] ] ]

\* commits without any email text, by authors of two countries
Commit7 ==
    [ hexsha |-> "c7c7",
      author |-> [ name |-> Name_A, email |-> Str_a_x_de ],
      committer |-> [ name |-> Name_A, email |-> Str_a_x_de ],
      authored |-> [ local |-> 160, offset |-> 0 ],
      message |-> NoText,
      parents |-> <<>>,
      diff_fails |-> FALSE,
      stats_fail |-> FALSE,
      file_fails |-> 0,
      merge_diff |-> <<>>,
      diff |-> <<>> ]

Commit8 ==
    [ hexsha |-> "c8c8",
      author |-> [ name |-> Name_B, email |-> Str_b_y_fr ],
      committer |-> [ name |-> Name_B, email |-> Str_b_y_fr ],
      authored |-> [ local |-> 170, offset |-> 0 ],
      message |-> NoText,
      parents |-> << "c7c7" >>,
      diff_fails |-> FALSE,
      stats_fail |-> FALSE,
      file_fails |-> 0,
      merge_diff |-> <<>>,
      diff |-> << [ path |-> "x.py", text |-> NoText ] >> ]

CommitPool == { Commit0, Commit1, Commit2 }

HistoryPool == { Commit0, Commit1, Commit2, Commit3, Commit4 }

MergePool == { Commit1, Commit6, Commit7, Commit8 }

\* a repository: what iter_commits() yields from HEAD, and its branches,
\* each with its tip and the commits reachable from the tip
Repository(commits) ==
    [ valid |-> TRUE,
      commits |-> commits,
      branches |-> IF commits = <<>> THEN <<>>
                   ELSE << [ name |-> "main", commit |-> commits[1], ancestry |-> commits ] >> ]

\* the walk from HEAD: every commit once, each followed by its first parent,
\* down to a root commit
Repositories ==
    { Repository(cs) : cs \in { h \in SeqsUpTo(CommitPool, MaxCommits) :
                                  /\ Cardinality(Range(h)) = Len(h)
                                  /\ \A i \in 1..Len(h) :
                                        IF i = Len(h) THEN h[i].parents = <<>>
                                        ELSE /\ h[i].parents # <<>>
                                             /\ h[i].parents[1] = h[i + 1].hexsha } }

\* a path that holds no repository
NotARepository == [ valid |-> FALSE ]

\* a repository with a second branch, one commit ahead of the checked-out one
RepositoryWithBranch(commits, tip) ==
    [ valid |-> TRUE,
      commits |-> commits,
      branches |-> << [ name |-> "main", commit |-> commits[1], ancestry |-> commits ],
                      [ name |-> "feature", commit |-> tip, ancestry |-> << tip >> \o commits ] >> ]

\* histories: every commit at most once
Histories ==
    { cs \in SeqsUpTo(HistoryPool, MaxHistory) \cup SeqsUpTo(MergePool, MaxHistory) :
        Cardinality(Range(cs)) = Len(cs) }

HistoryRepositories ==
    { Repository(cs) : cs \in Histories }
    \cup { RepositoryWithBranch(cs, Commit5) : cs \in Histories \ { <<>> } }

\* git.Repo(path): InvalidGitRepositoryError becomes ValueError
initialize_repository_lenient(path) ==
    [ raised |-> FALSE, repo |-> IF path.valid THEN path ELSE Repository(<<>>) ]

initialize_repository(path) ==
    IF path.valid THEN [ raised |-> FALSE, repo |-> path ]
    ELSE [ raised |-> TRUE ]


\* "{name} <{email}>"
FormatIdentity(person) == person.name \o << " ", "<" >> \o person.email \o << ">" >>

\* datetime.isoformat() of an aware datetime, as its lexicographic sort key:
\* the wall-clock part, then the sign character ('+' < '-'), then the digits
isoformat(ts) == << ts.local,
                    IF ts.offset < 0 THEN 1 ELSE 0,
                    IF ts.offset < 0 THEN 0 - ts.offset ELSE ts.offset >>

\* datetime.fromisoformat(): the instant, in hours UTC
fromisoformat(iso) == iso[1] - (IF iso[2] = 1 THEN 0 - iso[3] ELSE iso[3])

IsoLess(a, b) ==
    \/ a[1] < b[1]
    \/ a[1] = b[1] /\ a[2] < b[2]
    \/ a[1] = b[1] /\ a[2] = b[2] /\ a[3] < b[3]

\* a_list[:n]
FirstN(s, n) == IF Len(s) <= n THEN s ELSE SubSeq(s, 1, n)

RECURSIVE diff_findings(_)
diff_findings(files) ==
    IF files = <<>> THEN [ emails |-> <<>>, potential_pii |-> <<>> ]
    ELSE LET f == Head(files)
             rest == diff_findings(Tail(files))
         IN  [ emails |-> f.text.emails \o rest.emails,
               potential_pii |->
                   [ i \in 1..Len(f.text.sensitive) |->
                       << f.text.sensitive[i][1], f.path, f.text.sensitive[i][2] >> ]
                   \o rest.potential_pii ]

check_commit_for_pii_every_file(commit) ==
    LET inspected == commit.diff
        from_diff ==
            IF commit.parents # <<>> /\ ~commit.diff_fails
            THEN IF commit.file_fails \in 1..Len(inspected)
                 THEN diff_findings(FirstN(inspected, commit.file_fails - 1))
                 ELSE diff_findings(inspected)
            ELSE [ emails |-> <<>>, potential_pii |-> <<>> ]
    IN  [ emails |-> commit.message.emails \o from_diff.emails,
          potential_pii |-> from_diff.potential_pii,
          sensitive_patterns |-> commit.message.sensitive ]

\* the findings are appended to pii_found file by file, so an exception
\* raised for a file leaves what the files before it contributed
check_commit_for_pii(commit) ==
    LET inspected == FirstN(commit.diff, DiffFileLimit)
        from_diff ==
            IF commit.parents # <<>> /\ ~commit.diff_fails
            THEN IF commit.file_fails \in 1..Len(inspected)
                 THEN diff_findings(FirstN(inspected, commit.file_fails - 1))
                 ELSE diff_findings(inspected)
            ELSE [ emails |-> <<>>, potential_pii |-> <<>> ]
    IN  [ emails |-> commit.message.emails \o from_diff.emails,
          potential_pii |-> from_diff.potential_pii,
          sensitive_patterns |-> commit.message.sensitive ]

commit_data(commit) ==
    [ hash |-> commit.hexsha,
      author |-> [ name |-> commit.author.name,
                   email |-> commit.author.email,
                   timestamp |-> isoformat(commit.authored) ],
      committer |-> [ name |-> commit.committer.name,
                      email |-> commit.committer.email ],
      personal_data_found |-> check_commit_for_pii(commit),
      parents |-> commit.parents ]

\* total_count is incremented first; an exception while the record is
\* built (commit.stats) ends the loop through the except clause
RECURSIVE scan_commit_loop(_, _, _)
scan_commit_loop(todo, commits, total_count) ==
    IF todo = <<>> THEN [ commits |-> commits, total_count |-> total_count ]
    ELSE LET count1 == total_count + 1
         IN  IF Head(todo).stats_fail
             THEN [ commits |-> commits, total_count |-> count1 ]
             ELSE LET commits1 == Append(commits, commit_data(Head(todo)))
                  IN  IF count1 >= CommitLimit
                      THEN [ commits |-> commits1, total_count |-> count1 ]
                      ELSE scan_commit_loop(Tail(todo), commits1, count1)

scan_commit_history(repository) == scan_commit_loop(repository.commits, <<>>, 0)

scan_branches(repository) ==
    [ i \in 1..Len(repository.branches) |->
        LET branch == repository.branches[i]
        IN  [ name |-> branch.name,
              last_commit |-> [ hash |-> branch.commit.hexsha,
                                author |-> branch.commit.author,
                                committer |-> branch.commit.committer ],
              personal_data_exposure |-> check_commit_for_pii(branch.commit) ] ]

RECURSIVE extract_personal_data_per_commit(_)
extract_personal_data_per_commit(commits) ==
    IF commits = <<>>
    THEN [ emails |-> {}, authors |-> {}, committers |-> {}, potential_pii |-> <<>> ]
    ELSE LET n == Len(commits)
             commit == commits[n]
             before == extract_personal_data_per_commit(SubSeq(commits, 1, n - 1))
         IN  [ emails |-> before.emails
                          \cup { e \o << commit.hash >> : e \in Range(commit.personal_data_found.emails) },
               authors |-> before.authors \cup { FormatIdentity(commit.author) \o << commit.hash >> },
               committers |-> before.committers
                              \cup { FormatIdentity(commit.committer) \o << commit.hash >> },
               potential_pii |-> before.potential_pii
                                 \o commit.personal_data_found.potential_pii
                                 \o commit.personal_data_found.sensitive_patterns ]

RECURSIVE extract_personal_data_last_only(_)
extract_personal_data_last_only(commits) ==
    IF commits = <<>>
    THEN [ emails |-> {}, authors |-> {}, committers |-> {}, potential_pii |-> <<>> ]
    ELSE LET n == Len(commits)
             commit == commits[n]
             before == extract_personal_data_last_only(SubSeq(commits, 1, n - 1))
         IN  [ emails |-> IF commit.personal_data_found.emails # <<>>
                          THEN Range(commit.personal_data_found.emails)
                          ELSE before.emails,
               authors |-> before.authors \cup { FormatIdentity(commit.author) },
               committers |-> before.committers \cup { FormatIdentity(commit.committer) },
               potential_pii |-> before.potential_pii
                                 \o commit.personal_data_found.potential_pii
                                 \o commit.personal_data_found.sensitive_patterns ]

RECURSIVE extract_personal_data_prepending(_)
extract_personal_data_prepending(commits) ==
    IF commits = <<>>
    THEN [ emails |-> {}, authors |-> {}, committers |-> {}, potential_pii |-> <<>> ]
    ELSE LET n == Len(commits)
             commit == commits[n]
             before == extract_personal_data_prepending(SubSeq(commits, 1, n - 1))
         IN  [ emails |-> before.emails \cup Range(commit.personal_data_found.emails),
               authors |-> before.authors \cup { FormatIdentity(commit.author) },
               committers |-> before.committers \cup { FormatIdentity(commit.committer) },
               potential_pii |-> commit.personal_data_found.potential_pii
                                 \o commit.personal_data_found.sensitive_patterns
                                 \o before.potential_pii ]

RECURSIVE extract_personal_data_with_identities(_)
extract_personal_data_with_identities(commits) ==
    IF commits = <<>>
    THEN [ emails |-> {}, authors |-> {}, committers |-> {}, potential_pii |-> <<>> ]
    ELSE LET n == Len(commits)
             commit == commits[n]
             before == extract_personal_data_with_identities(SubSeq(commits, 1, n - 1))
         IN  [ emails |-> before.emails \cup Range(commit.personal_data_found.emails)
                          \cup { commit.author.email, commit.committer.email },
               authors |-> before.authors \cup { FormatIdentity(commit.author) },
               committers |-> before.committers \cup { FormatIdentity(commit.committer) },
               potential_pii |-> before.potential_pii
                                 \o commit.personal_data_found.potential_pii
                                 \o commit.personal_data_found.sensitive_patterns ]

RECURSIVE extract_personal_data(_)
extract_personal_data(commits) ==
    IF commits = <<>>
    THEN [ emails |-> {}, authors |-> {}, committers |-> {}, potential_pii |-> <<>> ]
    ELSE LET n == Len(commits)
             commit == commits[n]
             before == extract_personal_data(SubSeq(commits, 1, n - 1))
         IN  [ emails |-> before.emails \cup Range(commit.personal_data_found.emails),
               authors |-> before.authors \cup { FormatIdentity(commit.author) },
               committers |-> before.committers \cup { FormatIdentity(commit.committer) },
               potential_pii |-> before.potential_pii
                                 \o commit.personal_data_found.potential_pii
                                 \o commit.personal_data_found.sensitive_patterns ]

\* sorted(commits, key=author timestamp): stable insertion sort
RECURSIVE InsertByTimestamp(_, _)
InsertByTimestamp(sorted, c) ==
    IF sorted = <<>> THEN << c >>
    ELSE IF IsoLess(c.author.timestamp, Head(sorted).author.timestamp)
         THEN << c >> \o sorted
         ELSE << Head(sorted) >> \o InsertByTimestamp(Tail(sorted), c)

RECURSIVE SortByTimestamp(_)
SortByTimestamp(commits) ==
    IF commits = <<>> THEN <<>>
    ELSE InsertByTimestamp(SortByTimestamp(SubSeq(commits, 1, Len(commits) - 1)),
                           commits[Len(commits)])

analyze_data_retention(commits) ==
    IF commits = <<>> THEN [ x \in {} |-> 0 ]
    ELSE LET sorted_commits == SortByTimestamp(commits)
             first_commit == fromisoformat(sorted_commits[1].author.timestamp)
             last_commit == fromisoformat(sorted_commits[Len(sorted_commits)].author.timestamp)
         IN  [ first_commit_date |-> first_commit,
               last_commit_date |-> last_commit,
               retention_period_days |-> (last_commit - first_commit) \div HoursPerDay,
               total_commits |-> Len(commits),
               data_erasure_possible |-> FALSE ]

analyze_hash_permanence(commits) ==
    LET sample == FirstN(commits, SampleHashLimit)
        sample_hashes == [ i \in 1..Len(sample) |-> sample[i].hash ]
    IN  [ total_hashes |-> Len(commits),
          hash_algorithm |-> "SHA-1",
          sample_hashes |-> sample_hashes,
          permanence_issues |->
              (IF commits # <<>> /\ Cardinality(Range(sample_hashes)) # Len(sample_hashes)
               THEN << "Hash collision detected" >> ELSE <<>>)
              \o << "Git hashes create permanent references to commit data",
                    "Distributed nature prevents centralized data erasure",
                    "Fork propagation multiplies data retention points" >>,
          erasure_impossible |-> TRUE ]

Lower(c) ==
    CASE c = "C" -> "c" [] c = "D" -> "d" [] c = "E" -> "e"
      [] c = "M" -> "m" [] c = "O" -> "o" [] c = "Z" -> "z"
      [] OTHER -> c

LowerText(t) == [ i \in 1..Len(t) |-> Lower(t[i]) ]

\* text.split('@'): the pieces between the '@' characters
RECURSIVE SplitAt(_, _)
SplitAt(t, piece) ==
    IF t = <<>> THEN << piece >>
    ELSE IF Head(t) = "@" THEN << piece >> \o SplitAt(Tail(t), <<>>)
         ELSE SplitAt(Tail(t), Append(piece, Head(t)))

EndsWith(t, suffix) ==
    /\ Len(t) >= Len(suffix)
    /\ SubSeq(t, Len(t) - Len(suffix) + 1, Len(t)) = suffix

country_domains ==
    { << << ".", "u", "k" >>, "United Kingdom" >>, << << ".", "d", "e" >>, "Germany" >>,
      << << ".", "f", "r" >>, "France" >>,         << << ".", "i", "t" >>, "Italy" >>,
      << << ".", "e", "s" >>, "Spain" >>,          << << ".", "n", "l" >>, "Netherlands" >>,
      << << ".", "s", "e" >>, "Sweden" >>,         << << ".", "d", "k" >>, "Denmark" >>,
      << << ".", "n", "o" >>, "Norway" >>,         << << ".", "f", "i" >>, "Finland" >>,
      << << ".", "p", "l" >>, "Poland" >>,         << << ".", "c", "z" >>, "Czech Republic" >>,
      << << ".", "a", "t" >>, "Austria" >>,        << << ".", "c", "h" >>, "Switzerland" >>,
      << << ".", "b", "e" >>, "Belgium" >>,        << << ".", "i", "e" >>, "Ireland" >>,
      << << ".", "p", "t" >>, "Portugal" >>,       << << ".", "g", "r" >>, "Greece" >>,
      << << ".", "h", "u" >>, "Hungary" >>,        << << ".", "r", "o" >>, "Romania" >>,
      << << ".", "b", "g" >>, "Bulgaria" >>,       << << ".", "h", "r" >>, "Croatia" >>,
      << << ".", "s", "i" >>, "Slovenia" >>,       << << ".", "s", "k" >>, "Slovakia" >>,
      << << ".", "l", "t" >>, "Lithuania" >>,      << << ".", "l", "v" >>, "Latvia" >>,
      << << ".", "e", "e" >>, "Estonia" >>,        << << ".", "l", "u" >>, "Luxembourg" >>,
      << << ".", "m", "t" >>, "Malta" >>,          << << ".", "c", "y" >>, "Cyprus" >> }

PlatformTransfer ==
    [ type |-> "platform_transfer",
      description |-> "Repository hosted on GitHub (US-based platform)",
      gdpr_implication |-> "EU personal data transferred to US without adequate safeguards",
      legal_basis |-> "Unclear - no explicit consent for international transfer" ]

\* mutant: no platform indicator when no email was collected
detect_cross_border_transfers_when_data(personal_data) ==
    LET emails == Get(personal_data, "emails", {})
        email_domains == { LowerText(SplitAt(e, <<>>)[2]) : e \in { x \in emails : "@" \in Range(x) } }
        detected_countries ==
            { entry[2] : entry \in { x \in country_domains :
                                       \E domain \in email_domains : EndsWith(domain, x[1]) } }
    IN  IF Cardinality(detected_countries) > 1
        THEN { << [ type |-> "multi_country_contributors",
                    countries |-> order,
                    gdpr_implication |-> "Cross-border data transfer without explicit consent mechanism" ],
                  PlatformTransfer >> : order \in Orderings(detected_countries) }
        ELSE IF emails = {} THEN { <<>> } ELSE { << PlatformTransfer >> }

detect_cross_border_transfers_case_sensitive(personal_data) ==
    LET emails == Get(personal_data, "emails", {})
        email_domains == { SplitAt(e, <<>>)[2] : e \in { x \in emails : "@" \in Range(x) } }
        detected_countries ==
            { entry[2] : entry \in { x \in country_domains :
                                       \E domain \in email_domains : EndsWith(domain, x[1]) } }
    IN  IF Cardinality(detected_countries) > 1
        THEN { << [ type |-> "multi_country_contributors",
                    countries |-> order,
                    gdpr_implication |-> "Cross-border data transfer without explicit consent mechanism" ],
                  PlatformTransfer >> : order \in Orderings(detected_countries) }
        ELSE { << PlatformTransfer >> }

\* the set of indicator lists the call can return: list(detected_countries)
\* may come out in any order
detect_cross_border_transfers(personal_data) ==
    LET emails == Get(personal_data, "emails", {})
        email_domains == { LowerText(SplitAt(e, <<>>)[2]) : e \in { x \in emails : "@" \in Range(x) } }
        detected_countries ==
            { entry[2] : entry \in { x \in country_domains :
                                       \E domain \in email_domains : EndsWith(domain, x[1]) } }
    IN  IF Cardinality(detected_countries) > 1
        THEN { << [ type |-> "multi_country_contributors",
                    countries |-> order,
                    gdpr_implication |-> "Cross-border data transfer without explicit consent mechanism" ],
                  PlatformTransfer >> : order \in Orderings(detected_countries) }
        ELSE { << PlatformTransfer >> }

\* the ScanResults scan_repository can return, _serialize_results included:
\* the sets of personal_data become lists in an order the runtime chooses
scan_repository(repository) ==
    LET branch_analysis == scan_branches(repository)
        history == scan_commit_history(repository)
        personal_data == extract_personal_data(history.commits)
    IN  { [ total_commits |-> history.total_count,
            total_branches |-> Len(branch_analysis),
            personal_data |-> [ emails |-> emails,
                                authors |-> authors,
                                committers |-> committers,
                                potential_pii |-> personal_data.potential_pii ],
            commit_analysis |-> history.commits,
            branch_analysis |-> branch_analysis,
            data_retention |-> analyze_data_retention(history.commits),
            cross_border_indicators |-> indicators,
            hash_analysis |-> analyze_hash_permanence(history.commits) ] :
          << emails, authors, committers, indicators >> \in
              Orderings(personal_data.emails) \X Orderings(personal_data.authors)
              \X Orderings(personal_data.committers)
              \X detect_cross_border_transfers(personal_data) }

(***************************************************************************)
(* GDPRAnalyser.analyze_fork_impact                                        *)
(*                                                                         *)
(* A repository identifier is given by what the code reads of it: whether  *)
(* it is a str at all (the scan command passes a Path object), whether it  *)
(* contains 'github.com', and how many parts its URL path splits into.     *)
(***************************************************************************)
RepositoryUrls ==
    { [ is_str |-> TRUE,  github |-> FALSE, path_parts |-> 3 ],    \* "/local/repo/path"
      [ is_str |-> FALSE, github |-> FALSE, path_parts |-> 3 ],    \* Path("/local/repo/path")
      [ is_str |-> TRUE,  github |-> TRUE,  path_parts |-> 2 ],    \* "https://github.com/example/repo"
      [ is_str |-> TRUE,  github |-> TRUE,  path_parts |-> 1 ] }   \* "https://github.com/"

ForkCountries == { "United States", "Germany", "France", "United Kingdom", "Netherlands", "Sweden" }

\* random.randint(10, 100): the ends and one value between
ForkCounts == { 10, 55, 100 }

\* random.sample(countries, random.randint(2, 5)), up to MaxSample countries
CountrySamples ==
    { sample \in UNION { [1..k -> ForkCountries] : k \in 2..MaxSample } :
        Cardinality(Range(sample)) = Len(sample) }

simulate_github_fork_analysis ==
    { [ total_forks |-> total_forks,
        countries |-> Range(selected_countries),
        multiplication_factor |-> total_forks + 1,
        erasure_impossible |-> TRUE,
        cross_border_transfers |->
            << [ type |-> "fork_propagation",
                 countries_involved |-> selected_countries,
                 gdpr_implication |-> "Impossible to ensure data erasure across all copies" ] >>,
        gdpr_implications |->
            << "Data multiplication violates data minimization principle",
               "Cross-border transfers without adequate safeguards",
               "Impossible to fulfill erasure requests across all forks",
               "No mechanism to track or control data propagation" >> ] :
      << total_forks, selected_countries >> \in ForkCounts \X CountrySamples }

simulate_fork_analysis ==
    [ total_forks |-> 0,
      countries |-> {},
      multiplication_factor |-> 1,
      erasure_impossible |-> TRUE,
      cross_border_transfers |-> <<>>,
      gdpr_implications |->
          << "Potential for future fork propagation",
             "No mechanism to prevent unauthorized data replication",
             "Git architecture inherently violates data minimization" >> ]

\* the outcomes of the try block: the data of an estimate, or an exception
fork_estimates(repository_url) ==
    IF ~repository_url.is_str
    THEN { [ raised |-> TRUE, error |-> "argument of type 'PosixPath' is not iterable" ] }
    ELSE IF repository_url.github
         THEN IF repository_url.path_parts < 2
              THEN { [ raised |-> TRUE, error |-> "Invalid GitHub repository URL" ] }
              ELSE { [ raised |-> FALSE, data |-> d ] : d \in simulate_github_fork_analysis }
         ELSE { [ raised |-> FALSE, data |-> simulate_fork_analysis ] }

initial_fork_results(repository_url) ==
    [ repository_url |-> repository_url,
      total_forks |-> 0,
      analyzed_forks |-> <<>>,
      countries |-> {},
      multiplication_factor |-> 1,
      erasure_impossible |-> TRUE,
      cross_border_transfers |-> <<>>,
      gdpr_implications |-> <<>> ]

\* a variant in which a failed estimate is returned as the error alone
analyze_fork_impact_error_only(repository_url) ==
    UNION { IF estimate.raised
            THEN { [ repository_url |-> repository_url, error |-> estimate.error ] }
            ELSE LET updated == Update(initial_fork_results(repository_url), estimate.data)
                 IN  { [ updated EXCEPT !.countries = order ] : order \in Orderings(updated.countries) } :
            estimate \in fork_estimates(repository_url) }

\* the results the call can return; the countries set becomes a list in an
\* order the runtime chooses
analyze_fork_impact(repository_url) ==
    UNION { LET updated ==
                    IF estimate.raised
                    THEN Update(initial_fork_results(repository_url), [ error |-> estimate.error ])
                    ELSE Update(initial_fork_results(repository_url), estimate.data)
            IN  { [ updated EXCEPT !.countries = order ] : order \in Orderings(updated.countries) } :
            estimate \in fork_estimates(repository_url) }

(***************************************************************************)
(* The program as a state machine: a repository is opened and scanned (or  *)
(* a caller hands in a ScanResult dict it built itself, as the tests do),  *)
(* then one of the rule-engine entry points is applied to the ScanResult.  *)
(***************************************************************************)
VARIABLES pc, repository_path, repo, scan_results, compliance_results, check_result, all_results,
          fork_results,
          repo_path_text, articles_text, scan_button_enabled, model_scanner,
          model_scan_results, model_compliance_results, workers, signals, reports, scans_started

fork_vars == << fork_results >>

cli_vars == << pc, repository_path, repo, scan_results, compliance_results, check_result, all_results >>

\* the window's widgets, the Model object, the Worker threads, the queued
\* signals and the reports written
gui_vars == << repo_path_text, articles_text, scan_button_enabled, model_scanner,
               model_scan_results, model_compliance_results, workers, signals, reports,
               scans_started >>

vars == << pc, repository_path, repo, scan_results, compliance_results, check_result, all_results,
          fork_vars, gui_vars >>

None == [ none |-> TRUE ]

ArticleIds == { 6, 13, 14, 17, 20, 99 }

ArticleLists == { Articles(l) : l \in SeqsUpTo(ArticleIds, MaxArticles) } \cup { NoArticles }

\* ScanResult dicts built by a caller, in the manner of the tests' mocks
MockScanResults ==
    { [ repository_path |-> "/test/repo",
        total_commits |-> 10,
        total_branches |-> 2,
        personal_data |-> [ emails |-> e, authors |-> a, committers |-> a, potential_pii |-> p ],
        cross_border_indicators |-> x ] :
      << e, a, p, x >> \in
          { <<>>, << Str_a_x_de >> }
          \X { <<>>, << FormatIdentity([ name |-> Name_A, email |-> Str_a_x_de ]) >> }
          \X { <<>>, << << "ssn", "123-45-6789" >> >> }
          \X { <<>>, << PlatformTransfer >> } }
    \cup { [ repository_path |-> "/test/repo" ] }

Init ==
    /\ pc = "start"
    /\ repository_path = None
    /\ repo = None
    /\ scan_results = None
    /\ compliance_results = None
    /\ check_result = None
    /\ all_results = None
    /\ fork_results = None
    /\ repo_path_text = <<>>
    /\ articles_text = <<>>
    /\ scan_button_enabled = TRUE
    /\ model_scanner = FALSE
    /\ model_scan_results = None
    /\ model_compliance_results = None
    /\ workers = {}
    /\ signals = <<>>
    /\ reports = {}
    /\ scans_started = 0

\* GitScanner(repository_path); when it raises, the command reports the
\* error and exits
OpenRepository(path) ==
    /\ pc = "start"
    /\ repository_path' = path
    /\ LET opened == initialize_repository(path)
       IN  IF opened.raised
           THEN repo' = None /\ pc' = "failed"
           ELSE repo' = opened.repo /\ pc' = "opened"
    /\ UNCHANGED << scan_results, compliance_results, check_result, all_results >>
    /\ UNCHANGED << fork_vars, gui_vars >>

\* GitScanner.scan_repository()
ScanRepository ==
    /\ pc = "opened"
    /\ scan_results' \in scan_repository(repo)
    /\ pc' = "scanned"
    /\ UNCHANGED << repository_path, repo, compliance_results, check_result, all_results >>
    /\ UNCHANGED << fork_vars, gui_vars >>

\* a caller builds the ScanResult dict itself
MockScan(s) ==
    /\ pc = "start"
    /\ scan_results' = s
    /\ pc' = "scanned"
    /\ UNCHANGED << repository_path, repo, compliance_results, check_result, all_results >>
    /\ UNCHANGED << fork_vars, gui_vars >>

\* a variant that stores its verdict in the dict it was given
AnalyzeCompliance_tagging(articles) ==
    /\ pc = "scanned"
    /\ compliance_results' = analyze_compliance(scan_results, articles)
    /\ scan_results' = Update(scan_results,
                              [ overall_compliance |-> compliance_results'.overall_compliance ])
    /\ pc' = "analysed"
    /\ UNCHANGED << repository_path, repo, check_result, all_results >>
    /\ UNCHANGED << fork_vars, gui_vars >>

\* GDPRAnalyser.analyze_compliance(scan_results, articles)
AnalyzeCompliance(articles) ==
    /\ pc = "scanned"
    /\ compliance_results' = analyze_compliance(scan_results, articles)
    /\ pc' = "analysed"
    /\ UNCHANGED << repository_path, repo, scan_results, check_result, all_results >>
    /\ UNCHANGED << fork_vars, gui_vars >>

\* ComplianceChecker.check_article_compliance(scan_results, article)
CheckArticleCompliance(article) ==
    /\ pc = "scanned"
    /\ check_result' = quick_check_article_compliance(scan_results, article)
    /\ pc' = "checked"
    /\ UNCHANGED << repository_path, repo, scan_results, compliance_results, all_results >>
    /\ UNCHANGED << fork_vars, gui_vars >>

\* ComplianceChecker.check_all_articles(scan_results)
CheckAllArticles ==
    /\ pc = "scanned"
    /\ all_results' = check_all_articles(scan_results)
    /\ pc' = "checked_all"
    /\ UNCHANGED << repository_path, repo, scan_results, compliance_results, check_result >>
    /\ UNCHANGED << fork_vars, gui_vars >>

Next ==
    \/ \E path \in Repositories \cup { NotARepository } : OpenRepository(path)
    \/ ScanRepository
    \/ \E s \in MockScanResults : MockScan(s)
    \/ \E articles \in ArticleLists : AnalyzeCompliance(articles)
    \/ \E article \in ArticleIds : CheckArticleCompliance(article)
    \/ CheckAllArticles

Spec == Init /\ [][Next]_vars

\* the scanner alone, over longer histories, failing reads and a second branch
NextScan ==
    \/ \E path \in HistoryRepositories \cup { NotARepository } : OpenRepository(path)
    \/ ScanRepository

SpecScan == Init /\ [][NextScan]_vars

\* GDPRAnalyser.analyze_fork_impact(repository_url)
AnalyzeForkImpact(repository_url) ==
    /\ pc = "start"
    /\ fork_results' \in analyze_fork_impact(repository_url)
    /\ pc' = "forked"
    /\ UNCHANGED << repository_path, repo, scan_results, compliance_results, check_result, all_results >>
    /\ UNCHANGED gui_vars

\* the fork analysis on its own, as the fork command and the tests call it
NextFork == \E repository_url \in RepositoryUrls : AnalyzeForkImpact(repository_url)

SpecFork == Init /\ [][NextFork]_vars

(***************************************************************************)
(* The GUI (src/main.py, src/model.py): the window's slots run on the GUI  *)
(* thread, Worker.run on a thread of its own; a signal the Worker emits is *)
(* queued and delivered to the window's slot by the GUI thread later.      *)
(***************************************************************************)
Digits == { "0", "1", "2", "3", "4", "5", "6", "7", "8", "9" }

DigitValue(c) ==
    CASE c = "0" -> 0 [] c = "1" -> 1 [] c = "2" -> 2 [] c = "3" -> 3 [] c = "4" -> 4
      [] c = "5" -> 5 [] c = "6" -> 6 [] c = "7" -> 7 [] c = "8" -> 8 [] c = "9" -> 9

\* text.split(","): the pieces between the commas
RECURSIVE SplitOnComma(_, _)
SplitOnComma(t, piece) ==
    IF t = <<>> THEN << piece >>
    ELSE IF Head(t) = "," THEN << piece >> \o SplitOnComma(Tail(t), <<>>)
         ELSE SplitOnComma(Tail(t), Append(piece, Head(t)))

\* a.strip(), for blanks
RECURSIVE Strip(_)
Strip(t) ==
    IF t = <<>> THEN t
    ELSE IF Head(t) = " " THEN Strip(Tail(t))
    ELSE IF t[Len(t)] = " " THEN Strip(SubSeq(t, 1, Len(t) - 1))
    ELSE t

\* int(a) of a stripped piece made of the characters typed here: a decimal
\* number, or ValueError
IsInt(t) == t # <<>> /\ \A i \in 1..Len(t) : t[i] \in Digits

RECURSIVE IntValue(_)
IntValue(t) == IF t = <<>> THEN 0 ELSE 10 * IntValue(SubSeq(t, 1, Len(t) - 1)) + DigitValue(t[Len(t)])

\* [int(a.strip()) for a in articles_text.split(",")] if articles_text else None
parse_articles(text) ==
    IF text = <<>> THEN [ raised |-> FALSE, articles |-> NoArticles ]
    ELSE LET pieces == SplitOnComma(text, <<>>)
         IN  IF \E i \in 1..Len(pieces) : ~IsInt(Strip(pieces[i]))
             THEN [ raised |-> TRUE ]
             ELSE [ raised |-> FALSE,
                    articles |-> Articles([ i \in 1..Len(pieces) |-> IntValue(Strip(pieces[i])) ]) ]

\* what the user may type into the articles field
ArticleTexts ==
    { <<>>,
      << "6", ",", "1", "7" >>,
      << "1", "7", ",", " ", "1", "7" >>,
      << "6", "," >>,
      << "a", "l", "l" >> }

\* the directory the user picks
PickedPath == << "/", "r" >>

\* MainWindow.browse_for_repo: the text is set first; GitScanner(path) raises
\* for a directory without a repository and _scanner keeps its old value
BrowseForRepo(path) ==
    /\ repo_path_text' = PickedPath
    /\ model_scanner' = IF initialize_repository(path).raised THEN model_scanner ELSE TRUE
    /\ UNCHANGED << articles_text, scan_button_enabled, model_scan_results,
                    model_compliance_results, workers, signals, reports, scans_started >>
    /\ UNCHANGED << cli_vars, fork_vars >>

\* the user edits the articles field
EditArticles(text) ==
    /\ articles_text' = text
    /\ UNCHANGED << repo_path_text, scan_button_enabled, model_scanner, model_scan_results,
                    model_compliance_results, workers, signals, reports, scans_started >>
    /\ UNCHANGED << cli_vars, fork_vars >>

\* MainWindow.start_scan, the slot of the scan button's clicked signal (a
\* disabled button does not emit it); an exception raised in a slot ends the
\* slot and the event loop goes on
StartScan ==
    /\ scan_button_enabled
    /\ scans_started < MaxScans
    /\ IF repo_path_text = <<>>
       THEN UNCHANGED << scan_button_enabled, workers, scans_started >>
       ELSE /\ scan_button_enabled' = FALSE
            /\ LET parsed == parse_articles(articles_text)
               IN  IF parsed.raised
                   THEN UNCHANGED << workers, scans_started >>
                   ELSE /\ workers' = workers \cup { [ run |-> scans_started + 1,
                                                       articles |-> parsed.articles,
                                                       at |-> "scan" ] }
                        /\ scans_started' = scans_started + 1
    /\ UNCHANGED << repo_path_text, articles_text, model_scanner, model_scan_results,
                    model_compliance_results, signals, reports >>
    /\ UNCHANGED << cli_vars, fork_vars >>

Moved(w, at) == (workers \ { w }) \cup { [ w EXCEPT !.at = at ] }

\* Model.run_scan, first statement: self._scan_results = scan_repository()
WorkerScan(w, raises) ==
    /\ w \in workers
    /\ w.at = "scan"
    /\ IF ~model_scanner
       THEN workers' = Moved(w, "report") /\ UNCHANGED model_scan_results
       ELSE IF raises
            THEN workers' = Moved(w, "error") /\ UNCHANGED model_scan_results
            ELSE /\ model_scan_results' = [ run |-> w.run ]
                 /\ workers' = Moved(w, "analyse")
    /\ UNCHANGED << repo_path_text, articles_text, scan_button_enabled, model_scanner,
                    model_compliance_results, signals, reports, scans_started >>
    /\ UNCHANGED << cli_vars, fork_vars >>

\* Model.run_scan, second statement: self._compliance_results = analyze_compliance(...)
WorkerAnalyse(w) ==
    /\ w \in workers
    /\ w.at = "analyse"
    /\ model_compliance_results' = [ run |-> w.run, articles |-> w.articles ]
    /\ workers' = Moved(w, "report")
    /\ UNCHANGED << repo_path_text, articles_text, scan_button_enabled, model_scanner,
                    model_scan_results, signals, reports, scans_started >>
    /\ UNCHANGED << cli_vars, fork_vars >>

\* Model.generate_report: a report of the two results the Model holds now
generate_report(by) ==
    IF model_scan_results # None /\ model_compliance_results # None
    THEN reports \cup { [ scan |-> model_scan_results.run,
                          compliance |-> model_compliance_results.run,
                          by |-> by ] }
    ELSE reports

\* Worker.run: the temporary report
WorkerReport(w, raises) ==
    /\ w \in workers
    /\ w.at = "report"
    /\ IF raises
       THEN workers' = Moved(w, "error") /\ UNCHANGED reports
       ELSE workers' = Moved(w, "emit") /\ reports' = generate_report("worker")
    /\ UNCHANGED << repo_path_text, articles_text, scan_button_enabled, model_scanner,
                    model_scan_results, model_compliance_results, signals, scans_started >>
    /\ UNCHANGED << cli_vars, fork_vars >>

\* Worker.run: scan_complete.emit or scan_error.emit, and the thread ends
WorkerEmit(w) ==
    /\ w \in workers
    /\ w.at \in { "emit", "error" }
    /\ signals' = Append(signals, IF w.at = "emit" THEN "scan_complete" ELSE "scan_error")
    /\ workers' = workers \ { w }
    /\ UNCHANGED << repo_path_text, articles_text, scan_button_enabled, model_scanner,
                    model_scan_results, model_compliance_results, reports, scans_started >>
    /\ UNCHANGED << cli_vars, fork_vars >>

\* MainWindow.scan_complete
ScanComplete ==
    /\ signals # <<>>
    /\ Head(signals) = "scan_complete"
    /\ signals' = Tail(signals)
    /\ scan_button_enabled' = TRUE
    /\ UNCHANGED << repo_path_text, articles_text, model_scanner, model_scan_results,
                    model_compliance_results, workers, reports, scans_started >>
    /\ UNCHANGED << cli_vars, fork_vars >>

\* MainWindow.scan_error
ScanError ==
    /\ signals # <<>>
    /\ Head(signals) = "scan_error"
    /\ signals' = Tail(signals)
    /\ scan_button_enabled' = TRUE
    /\ UNCHANGED << repo_path_text, articles_text, model_scanner, model_scan_results,
                    model_compliance_results, workers, reports, scans_started >>
    /\ UNCHANGED << cli_vars, fork_vars >>

\* MainWindow.save_report, with a file chosen in the dialog
SaveReport ==
    /\ reports' = IF model_scan_results = None THEN reports ELSE generate_report("save")
    /\ UNCHANGED << repo_path_text, articles_text, scan_button_enabled, model_scanner,
                    model_scan_results, model_compliance_results, workers, signals,
                    scans_started >>
    /\ UNCHANGED << cli_vars, fork_vars >>

\* any step of a Worker thread
WorkerStep ==
    \E w \in workers :
        \/ \E raises \in BOOLEAN : WorkerScan(w, raises)
        \/ WorkerAnalyse(w)
        \/ \E raises \in BOOLEAN : WorkerReport(w, raises)
        \/ WorkerEmit(w)

NextGui ==
    \/ \E path \in { Repository(<< Commit0 >>), NotARepository } : BrowseForRepo(path)
    \/ \E text \in ArticleTexts : EditArticles(text)
    \/ StartScan
    \/ \E w \in workers, raises \in BOOLEAN : WorkerScan(w, raises)
    \/ \E w \in workers : WorkerAnalyse(w)
    \/ \E w \in workers, raises \in BOOLEAN : WorkerReport(w, raises)
    \/ \E w \in workers : WorkerEmit(w)
    \/ ScanComplete
    \/ ScanError
    \/ SaveReport

SpecGui == Init /\ [][NextGui]_vars

\* a started thread keeps running, and the event loop delivers queued signals
SpecGuiFair == SpecGui /\ WF_vars(WorkerStep) /\ WF_vars(ScanComplete \/ ScanError)

(***************************************************************************)
(* Properties                                                              *)
(***************************************************************************)
Analysed == pc = "analysed"

Checked == pc = "checked"

\* the scan result came out of scan_repository on an opened repository
FromRepository == pc \in { "scanned", "analysed", "checked", "checked_all" } /\ repo # None

ArticleResults == compliance_results.article_results

\* C1: article 17 is never compliant and always lists violations, whatever
\* the ScanResult (an empty repository included): in the analyser's
\* article_results[17], and in the checker's result for article 17, which
\* is also marked supported.
C1_Article17NeverCompliant ==
    /\ (Analysed /\ 17 \in DOMAIN ArticleResults) =>
          /\ ArticleResults[17].compliant = FALSE
          /\ Len(ArticleResults[17].violations) > 0
    /\ (Checked /\ check_result.article = 17) =>
          /\ check_result.supported = TRUE
          /\ check_result.compliant = FALSE
          /\ Len(check_result.issues) > 0

C1_Witness ==
    /\ Analysed
    /\ FromRepository
    /\ scan_results.total_commits = 0
    /\ scan_results.personal_data.emails = <<>>
    /\ scan_results.personal_data.authors = <<>>
    /\ 17 \in DOMAIN ArticleResults

\* C2: article 14 is compliant, with no violations and a severity
\* contribution of 0, exactly when cross_border_indicators is empty; it is
\* non-compliant whenever the list is non-empty.
C2_Article14IffNoCrossBorder ==
    (Analysed /\ 14 \in DOMAIN ArticleResults) =>
        LET cross_border == Get(scan_results, "cross_border_indicators", <<>>)
            result == ArticleResults[14]
        IN  /\ (Len(cross_border) = 0) =>
                  /\ result.compliant = TRUE
                  /\ result.violations = <<>>
                  /\ result.severity_score = 0
            /\ (Len(cross_border) > 0) => result.compliant = FALSE

C2_Witness ==
    /\ Analysed
    /\ 14 \in DOMAIN ArticleResults
    /\ "cross_border_indicators" \in DOMAIN scan_results
    /\ scan_results.cross_border_indicators = <<>>
    /\ ArticleResults[14].compliant

ZeroCommitScanAnalysed ==
    /\ Analysed
    /\ FromRepository
    /\ repo.commits = <<>>
    /\ 14 \in DOMAIN ArticleResults

\* C3 as stated: scanning a repository with zero commits gives an empty
\* cross-border indicator list, and article 14 on that ScanResult is
\* compliant.
C3_Original_ZeroCommitArticle14Compliant ==
    ZeroCommitScanAnalysed =>
        /\ scan_results.cross_border_indicators = <<>>
        /\ ArticleResults[14].compliant = TRUE

\* C3 (amended): scanning a repository with zero commits gives a
\* cross-border indicator list that holds exactly the unconditional
\* 'platform_transfer' indicator, and article 14 on that ScanResult is
\* non-compliant.
C3_ZeroCommitArticle14NonCompliant ==
    /\ (FromRepository /\ repo.commits = <<>>) =>
          scan_results.cross_border_indicators = << PlatformTransfer >>
    /\ ZeroCommitScanAnalysed => ArticleResults[14].compliant = FALSE

C3_Witness ==
    /\ ZeroCommitScanAnalysed
    /\ scan_results.total_commits = 0
    /\ compliance_results.articles_checked = << 14 >>

HasPersonalData(scan) ==
    LET personal_data == Get(scan, "personal_data", [x \in {} |-> <<>>])
    IN  \E key \in { "emails", "authors", "potential_pii" } :
            key \in DOMAIN personal_data /\ personal_data[key] # <<>>

CountType(violations, t) ==
    Cardinality({ i \in 1..Len(violations) : violations[i].type = t })

\* C4: article 6 is non-compliant whenever emails, authors or potential_pii
\* is non-empty; it always has exactly one 'no_consent_mechanism' violation;
\* it has a 'missing_lawful_basis' violation iff personal data is present;
\* its severity contribution is 13 with personal data and 5 without.
C4_Article6ByDataPresence ==
    (Analysed /\ 6 \in DOMAIN ArticleResults) =>
        LET result == ArticleResults[6]
            present == HasPersonalData(scan_results)
        IN  /\ present => result.compliant = FALSE
            /\ CountType(result.violations, "no_consent_mechanism") = 1
            /\ (CountType(result.violations, "missing_lawful_basis") > 0) <=> present
            /\ result.severity_score = IF present THEN 13 ELSE 5

C4_Witness ==
    /\ Analysed
    /\ 6 \in DOMAIN ArticleResults
    /\ "personal_data" \in DOMAIN scan_results
    /\ scan_results.personal_data.emails = <<>>
    /\ scan_results.personal_data.authors = <<>>
    /\ scan_results.personal_data.potential_pii # <<>>
    /\ ArticleResults[6].severity_score = 13

\* C5: the overall compliance flag of analyze_compliance is the logical AND
\* of the compliant flags of the per-article results it produced.
C5_OverallIsConjunction ==
    Analysed =>
        (compliance_results.overall_compliance
            <=> \A a \in DOMAIN ArticleResults : ArticleResults[a].compliant)

C5_Witness ==
    /\ Analysed
    /\ compliance_results.overall_compliance = TRUE
    /\ DOMAIN ArticleResults = { 14 }

\* order of first insertion into the article_results dict
RECURSIVE EvaluatedOrder(_, _)
EvaluatedOrder(articles, seen) ==
    IF articles = <<>> THEN <<>>
    ELSE IF Head(articles) \in DOMAIN gdpr_articles /\ Head(articles) \notin seen
         THEN << Head(articles) >> \o EvaluatedOrder(Tail(articles), seen \cup { Head(articles) })
         ELSE EvaluatedOrder(Tail(articles), seen)

\* C6: severity_score is the sum of the severity contributions of the
\* results in article_results, and violations is the concatenation of their
\* violation lists, each evaluated article counted once, also when the
\* requested list names an article more than once.
C6_TotalsMatchArticleResults ==
    Analysed =>
        LET order == EvaluatedOrder(compliance_results.articles_checked, {})
        IN  /\ compliance_results.severity_score =
                  SumSeq([ i \in 1..Len(order) |-> ArticleResults[order[i]].severity_score ])
            /\ compliance_results.violations =
                  Flatten([ i \in 1..Len(order) |-> ArticleResults[order[i]].violations ])

\* C7: the severity level is the fixed threshold function of the reported
\* severity_score: >= 20 critical, 15..19 high, 10..14 medium, 5..9 low,
\* below 5 minimal.
C7_SeverityLevelThresholds ==
    Analysed =>
        LET score == compliance_results.severity_score
            level == compliance_results.severity_level
        IN  /\ (score >= 20) => level = "critical"
            /\ (score >= 15 /\ score <= 19) => level = "high"
            /\ (score >= 10 /\ score <= 14) => level = "medium"
            /\ (score >= 5 /\ score <= 9) => level = "low"
            /\ (score < 5) => level = "minimal"

C7_Witness ==
    /\ Analysed
    /\ compliance_results.severity_score = 20
    /\ compliance_results.severity_level = "critical"

\* C8: a requested article list that contains article 17 yields overall
\* compliance false and severity level 'critical', for every ScanResult.
C8_Article17MakesCritical ==
    (Analysed /\ 17 \in Range(compliance_results.articles_checked)) =>
        /\ compliance_results.overall_compliance = FALSE
        /\ compliance_results.severity_level = "critical"

C8_Witness ==
    /\ Analysed
    /\ compliance_results.articles_checked = << 6, 17, 20 >>
    /\ compliance_results.severity_level = "critical"

\* C9: article 20 is non-compliant with severity medium: every violation the
\* analyser emits is tagged 'medium', the checker's severity field is
\* 'medium', and an evaluation of article 20 alone is classified at
\* severity level 'medium'.
C9_Article20Medium ==
    /\ (Analysed /\ 20 \in DOMAIN ArticleResults) =>
          /\ ArticleResults[20].compliant = FALSE
          /\ \A i \in 1..Len(ArticleResults[20].violations) :
                ArticleResults[20].violations[i].severity = "medium"
    /\ (Checked /\ check_result.article = 20) =>
          /\ check_result.compliant = FALSE
          /\ check_result.severity = "medium"
    /\ (Analysed /\ compliance_results.articles_checked = << 20 >>) =>
          compliance_results.severity_level = "medium"

Article13Types ==
    << "missing_privacy_notice", "unclear_processing_purposes",
       "missing_retention_information", "missing_rights_information" >>

\* C10: the article 13 result does not depend on the ScanResult: the
\* analyser returns, for any two ScanResults, the same result (compliant
\* false, the same four violations, the same severity contribution); the
\* checker always returns compliant false with severity 'high'.
C10_Article13EvidenceIndependent ==
    /\ (Analysed /\ 13 \in DOMAIN ArticleResults) =>
          /\ ArticleResults[13].compliant = FALSE
          /\ [ i \in 1..Len(ArticleResults[13].violations) |->
                 ArticleResults[13].violations[i].type ] = Article13Types
          /\ \A other \in MockScanResults :
                analyze_compliance(other, Articles(<< 13 >>)).article_results[13]
                    = ArticleResults[13]
    /\ (Checked /\ check_result.article = 13) =>
          /\ check_result.compliant = FALSE
          /\ check_result.severity = "high"

C10_Witness ==
    /\ Analysed
    /\ 13 \in DOMAIN ArticleResults
    /\ FromRepository
    /\ scan_results.total_commits = 2
    /\ Len(scan_results.personal_data.emails) >= 2

\* C11: an identifier outside the rule table does not abort the evaluation:
\* every supported article of the requested list has its entry in
\* article_results, and the unsupported identifier has an entry of its own
\* that marks it as unsupported.
C11_UnsupportedArticleGetsEntry ==
    Analysed =>
        \A a \in Range(compliance_results.articles_checked) :
            /\ a \in DOMAIN ArticleResults
            /\ (a \notin DOMAIN gdpr_articles) =>
                  /\ ArticleResults[a].article = a
                  /\ ArticleResults[a].compliant = FALSE

\* ---------------------------------------------------------------------
\* Claims about the scanner
\* ---------------------------------------------------------------------

Scanned == pc = "scanned" /\ repo # None

\* C12: after every scan the reported total_commits equals the number of
\* commit records collected (the length of commit_analysis, which
\* data_retention.total_commits and hash_analysis.total_hashes report too)
\* and does not exceed the cap (data_retention is an empty dict when no
\* record was collected, and is not compared then).
C12_TotalCommitsIsRecordCount ==
    Scanned =>
        /\ scan_results.total_commits = Len(scan_results.commit_analysis)
        /\ scan_results.commit_analysis # <<>> =>
              scan_results.total_commits = scan_results.data_retention.total_commits
        /\ scan_results.total_commits = scan_results.hash_analysis.total_hashes
        /\ scan_results.total_commits <= CommitLimit


\* the walker stopped at the cap while unvisited commits remained
Truncated ==
    /\ Len(repo.commits) > CommitLimit
    /\ scan_commit_history(repo).total_count = CommitLimit
    /\ Len(scan_commit_history(repo).commits) = CommitLimit

\* the repository that holds exactly the commits the truncated walk visited
VisitedOnly ==
    [ repo EXCEPT !.commits = FirstN(@, CommitLimit),
                  !.branches = [ i \in DOMAIN @ |->
                                   [ @[i] EXCEPT !.ancestry =
                                       SubSeq(@, 1, Len(@) - (Len(repo.commits) - CommitLimit)) ] ] ]

\* C13: when the walker stops at the cap with commits left unvisited, the
\* ScanResult records the truncation: it differs from every ScanResult of a
\* complete scan of the repository that holds exactly the visited commits.
C13_TruncationRecorded ==
    (Scanned /\ Truncated) => scan_results \notin scan_repository(VisitedOnly)


\* the commits reachable from the tip of any branch
ReachableFromBranches == UNION { Range(branch.ancestry) : branch \in Range(repo.branches) }

\* C14: for a repository with fewer reachable commits than the cap (and no
\* commit that fails to be read), every commit reachable from the tip of any
\* branch is yielded by the walk exactly once.
C14_WalkCoversEveryBranch ==
    ( /\ Scanned
      /\ Cardinality(ReachableFromBranches) < CommitLimit
      /\ \A c \in ReachableFromBranches : ~c.stats_fail )
    => \A c \in ReachableFromBranches :
          Cardinality({ i \in DOMAIN scan_results.commit_analysis :
                          scan_results.commit_analysis[i].hash = c.hexsha }) = 1


\* how many entries of a list hold the value
Occurrences(list, value) == Cardinality({ i \in DOMAIN list : list[i] = value })

\* the commit records the scan collected
Records == scan_results.commit_analysis

\* C15: after the fold and the final conversion of the sets to lists, every
\* distinct author string of the scanned commits occurs exactly once in
\* authors, and authors holds nothing else; likewise committers and emails.
C15_EachDistinctStringOnce ==
    Scanned =>
        LET personal_data == scan_results.personal_data
            author_strings == { FormatIdentity(Records[i].author) : i \in DOMAIN Records }
            committer_strings == { FormatIdentity(Records[i].committer) : i \in DOMAIN Records }
            email_strings == UNION { Range(Records[i].personal_data_found.emails) : i \in DOMAIN Records }
        IN  /\ \A s \in author_strings : Occurrences(personal_data.authors, s) = 1
            /\ Range(personal_data.authors) = author_strings
            /\ \A s \in committer_strings : Occurrences(personal_data.committers, s) = 1
            /\ Range(personal_data.committers) = committer_strings
            /\ \A s \in email_strings : Occurrences(personal_data.emails, s) = 1
            /\ Range(personal_data.emails) = email_strings

\* two scanned commits share the author string, two share the committer
\* string, and one email was found in two commits
C15_Witness ==
    /\ Scanned
    /\ \E i, j \in DOMAIN Records :
          /\ i # j
          /\ FormatIdentity(Records[i].author) = FormatIdentity(Records[j].author)
    /\ \E i, j \in DOMAIN Records :
          /\ i # j
          /\ FormatIdentity(Records[i].committer) = FormatIdentity(Records[j].committer)
    /\ \E i, j \in DOMAIN Records :
          /\ i # j
          /\ Range(Records[i].personal_data_found.emails)
               \cap Range(Records[j].personal_data_found.emails) # {}
    /\ Len(scan_results.personal_data.authors) < Len(Records)


\* the fold over the first n collected records
FoldedEmails(n) == extract_personal_data(SubSeq(Records, 1, n)).emails

\* the emails of record n that the fold had not seen before it
NewEmails(n) == Range(Records[n].personal_data_found.emails) \ FoldedEmails(n - 1)

\* C16: folding one more commit never shrinks the emails set; it grows by
\* exactly one when the commit's findings hold exactly one email not yet
\* present, and is unchanged when all its emails were already present.  The
\* emails the scan returns are those of the fold over all records.
C16_EmailsFoldMonotone ==
    Scanned =>
        /\ Range(scan_results.personal_data.emails) = FoldedEmails(Len(Records))
        /\ \A n \in DOMAIN Records :
              /\ FoldedEmails(n - 1) \subseteq FoldedEmails(n)
              /\ Cardinality(NewEmails(n)) = 1 =>
                    Cardinality(FoldedEmails(n)) = Cardinality(FoldedEmails(n - 1)) + 1
              /\ NewEmails(n) = {} => FoldedEmails(n) = FoldedEmails(n - 1)

\* a later commit brings exactly one new email, and another later commit
\* only emails that were already present
C16_Witness ==
    /\ Scanned
    /\ \E n \in DOMAIN Records :
          /\ n > 1
          /\ FoldedEmails(n - 1) # {}
          /\ Cardinality(NewEmails(n)) = 1
          /\ Cardinality(FoldedEmails(n)) = Cardinality(FoldedEmails(n - 1)) + 1
    /\ \E n \in DOMAIN Records :
          /\ n > 1
          /\ Records[n].personal_data_found.emails # <<>>
          /\ NewEmails(n) = {}
          /\ FoldedEmails(n) = FoldedEmails(n - 1)


\* the entries one commit record adds to the potential_pii list
PiiEntries(record) ==
    record.personal_data_found.potential_pii \o record.personal_data_found.sensitive_patterns

\* C17: folding any permutation of the collected commit records gives the
\* same emails, authors and committers sets, while potential_pii is the
\* concatenation of the records' entries in the order they were folded; the
\* list the scan returns is the one of the scan order.
C17_SetsUnorderedListOrdered ==
    Scanned =>
        /\ scan_results.personal_data.potential_pii
             = Flatten([ i \in DOMAIN Records |-> PiiEntries(Records[i]) ])
        /\ \A permutation \in Orderings(Range(Records)) :
              LET folded == extract_personal_data(permutation)
                  in_scan_order == extract_personal_data(Records)
              IN  /\ folded.emails = in_scan_order.emails
                  /\ folded.authors = in_scan_order.authors
                  /\ folded.committers = in_scan_order.committers
                  /\ folded.potential_pii
                       = Flatten([ i \in DOMAIN permutation |-> PiiEntries(permutation[i]) ])

\* at least two scanned commits have entries for the list, so that another
\* fold order gives another list, and they differ in their emails
C17_Witness ==
    /\ Scanned
    /\ \E i, j \in DOMAIN Records :
          /\ i < j
          /\ PiiEntries(Records[i]) # <<>>
          /\ PiiEntries(Records[j]) # <<>>
          /\ PiiEntries(Records[i]) \o PiiEntries(Records[j])
               # PiiEntries(Records[j]) \o PiiEntries(Records[i])
          /\ Range(Records[i].personal_data_found.emails)
               # Range(Records[j].personal_data_found.emails)
    /\ \E permutation \in Orderings(Range(Records)) :
          extract_personal_data(permutation).potential_pii # scan_results.personal_data.potential_pii


\* the country the suffix table gives for the domain of each email address
\* that occurs in the explored histories ("" where no suffix matches)
CountryOfEmail ==
    (Str_a_x_de :> "Germany") @@ (Str_b_y_fr :> "France")
    @@ (Str_c_Z_COM :> "") @@ (Str_d_w_DE :> "Germany")
    @@ (Str_e_v_it :> "Italy") @@ (Str_f_u_es :> "Spain")

IndicatorsOfType(t) ==
    { i \in DOMAIN scan_results.cross_border_indicators :
        scan_results.cross_border_indicators[i].type = t }

\* C18: the indicator list of a scan holds exactly one platform_transfer
\* indicator whatever was found; exactly one multi_country_contributors
\* indicator, listing the detected countries, if and only if the domains of
\* the collected emails map to two or more distinct countries; nothing else.
C18_CrossBorderIndicators ==
    Scanned =>
        LET indicators == scan_results.cross_border_indicators
            countries == { CountryOfEmail[e] : e \in Range(scan_results.personal_data.emails) } \ { "" }
        IN  /\ Cardinality(IndicatorsOfType("platform_transfer")) = 1
            /\ Cardinality(IndicatorsOfType("multi_country_contributors"))
                 = IF Cardinality(countries) >= 2 THEN 1 ELSE 0
            /\ \A i \in DOMAIN indicators :
                  indicators[i].type \in { "platform_transfer", "multi_country_contributors" }
            /\ \A i \in IndicatorsOfType("multi_country_contributors") :
                  /\ Range(indicators[i].countries) = countries
                  /\ Len(indicators[i].countries) = Cardinality(countries)

\* emails of two countries were collected, one of them only through a
\* domain written in upper case, next to an email of no listed country
C18_Witness ==
    /\ Scanned
    /\ Range(scan_results.personal_data.emails) = { Str_b_y_fr, Str_c_Z_COM, Str_d_w_DE }
    /\ Len(scan_results.cross_border_indicators) = 2
    /\ scan_results.cross_border_indicators[1].type = "multi_country_contributors"
    /\ Range(scan_results.cross_border_indicators[1].countries) = { "Germany", "France" }
    /\ scan_results.cross_border_indicators[2].type = "platform_transfer"


\* C19: when the given path is not a valid repository, opening it fails and
\* the run ends there: no scan happens, and no ScanResult, not even an empty
\* one, exists for the rule engine or the report to work on.
C19_InvalidRepositoryIsFatal ==
    (repository_path # None /\ ~repository_path.valid) =>
        /\ pc = "failed"
        /\ repo = None
        /\ scan_results = None
        /\ compliance_results = None
        /\ check_result = None
        /\ all_results = None

\* a path without a repository was given and opening it raised
C19_Witness ==
    /\ repository_path = NotARepository
    /\ pc = "failed"
    /\ scan_results = None


\* the diff step of the commit raises: either the diff against the first
\* parent, or the processing of one of the inspected files
DiffStepFails(commit) ==
    /\ commit.parents # <<>>
    /\ \/ commit.diff_fails
       \/ commit.file_fails \in 1..Len(FirstN(commit.diff, DiffFileLimit))

\* the walk gets to the i-th commit of the history and can read it
Walked(i) ==
    /\ i \in 1..Len(repo.commits)
    /\ i <= CommitLimit
    /\ \A j \in 1..i : ~repo.commits[j].stats_fail

\* C20: a commit whose diff step fails is still counted, with its author,
\* committer and message findings; the walk goes on with the commits after
\* it; and the commit contributes no finding from its diff, not even from
\* files processed before the failure.
C20_DiffFailureLeavesNoDiffFindings ==
    Scanned =>
        \A i \in 1..Len(repo.commits) :
            (Walked(i) /\ DiffStepFails(repo.commits[i])) =>
                /\ i \in DOMAIN Records
                /\ Records[i].hash = repo.commits[i].hexsha
                /\ FormatIdentity(Records[i].author) = FormatIdentity(repo.commits[i].author)
                /\ FormatIdentity(Records[i].committer) = FormatIdentity(repo.commits[i].committer)
                /\ Records[i].personal_data_found.sensitive_patterns = repo.commits[i].message.sensitive
                /\ \A j \in (i + 1)..Len(repo.commits) : Walked(j) => j \in DOMAIN Records
                /\ Records[i].personal_data_found.emails = repo.commits[i].message.emails
                /\ Records[i].personal_data_found.potential_pii = <<>>


\* the changed files of a commit that the scan may inspect: the first
\* DiffFileLimit files of the diff against the first parent
InspectableFiles(commit) ==
    IF commit.parents = <<>> THEN {}
    ELSE { commit.diff[i] : i \in 1..Len(commit.diff) \cap 1..DiffFileLimit }

\* the emails the findings of a commit may hold
InspectableEmails(commit) ==
    Range(commit.message.emails)
    \cup UNION { Range(f.text.emails) : f \in InspectableFiles(commit) }

\* the findings of one call of the commit inspection stay within the message
\* and the inspectable files
WithinInspectable(found, commit) ==
    /\ Range(found.emails) \subseteq InspectableEmails(commit)
    /\ \A k \in DOMAIN found.potential_pii :
          \E f \in InspectableFiles(commit) :
              /\ found.potential_pii[k][2] = f.path
              /\ << found.potential_pii[k][1], found.potential_pii[k][3] >> \in Range(f.text.sensitive)

\* C21: only the diff against the first parent is inspected, and of it at
\* most the first 10 changed files: the findings of every commit record and
\* of every branch tip, and the emails of the ScanResult, hold nothing from
\* an 11th or later file or from the diff against a second parent.
C21_FirstParentFirstTenFiles ==
    Scanned =>
        /\ \A i \in DOMAIN Records :
              WithinInspectable(Records[i].personal_data_found, repo.commits[i])
        /\ \A b \in DOMAIN scan_results.branch_analysis :
              WithinInspectable(scan_results.branch_analysis[b].personal_data_exposure,
                                repo.branches[b].commit)
        /\ Range(scan_results.personal_data.emails)
             \subseteq UNION { InspectableEmails(repo.commits[i]) : i \in DOMAIN Records }

\* a scanned merge changed more than 10 files against its first parent, with
\* findings in the 10th and the 11th file and in the diff against its second
\* parent; the 10th file's finding is recorded
C21_Witness ==
    /\ Scanned
    /\ \E i \in DOMAIN Records :
          LET commit == repo.commits[i]
          IN  /\ Len(commit.parents) = 2
              /\ Len(commit.diff) > DiffFileLimit
              /\ commit.diff[DiffFileLimit + 1].text.emails # <<>>
              /\ commit.merge_diff # <<>>
              /\ commit.merge_diff[1].text.emails # <<>>
              /\ \E k \in DOMAIN Records[i].personal_data_found.potential_pii :
                    Records[i].personal_data_found.potential_pii[k][2]
                      = commit.diff[DiffFileLimit].path


\* the estimate of the fork analysis fails for this identifier
EstimateFails(repository_url) == \E estimate \in fork_estimates(repository_url) : estimate.raised

\* C22: analyze_fork_impact returns a result for every repository
\* identifier, with erasure_impossible true in every outcome; a failure of
\* the estimate shows as an 'error' field of that result.
C22_ForkErasureAlwaysImpossible ==
    pc = "forked" =>
        /\ fork_results # None
        /\ Get(fork_results, "erasure_impossible", FALSE) = TRUE
        /\ EstimateFails(fork_results.repository_url) <=> "error" \in DOMAIN fork_results

\* the estimate failed and the result says so
C22_Witness ==
    /\ pc = "forked"
    /\ EstimateFails(fork_results.repository_url)
    /\ "error" \in DOMAIN fork_results
    /\ fork_results.erasure_impossible


\* C23: the rule engine is read-only on its input: the step of
\* analyze_compliance, check_article_compliance or check_all_articles leaves
\* the ScanResult it was given as it was.
C23_EngineLeavesScanResult ==
    [][(pc = "scanned" /\ pc' \in { "analysed", "checked", "checked_all" })
          => scan_results' = scan_results]_vars

\* the full engine ran on a ScanResult of a real scan that holds emails,
\* findings and indicators, and the ScanResult is still the scanner's
C23_Witness ==
    /\ pc = "analysed"
    /\ repo # None
    /\ compliance_results.articles_checked = DefaultArticles
    /\ scan_results \in scan_repository(repo)
    /\ scan_results.personal_data.emails # <<>>
    /\ scan_results.personal_data.potential_pii # <<>>
    /\ Len(scan_results.cross_border_indicators) = 2


\* C24: the merged recommendation list that analyze_compliance returns holds
\* no string twice, whatever the ScanResult and the requested article list.
C24_RecommendationsWithoutDuplicates ==
    Analysed =>
        \A i, j \in DOMAIN compliance_results.recommendations :
            compliance_results.recommendations[i] = compliance_results.recommendations[j] => i = j


\* C25: for every scan that collected commits, also commits whose author
\* timestamps carry different UTC offsets, retention_period_days is not
\* negative and first_commit_date is not later than last_commit_date.
C25_RetentionSpanNotNegative ==
    (Scanned /\ Records # <<>>) =>
        /\ scan_results.data_retention.retention_period_days >= 0
        /\ scan_results.data_retention.first_commit_date
             <= scan_results.data_retention.last_commit_date


\* C26: the two rule engines agree: on the same ScanResult the quick check
\* of a supported article returns the compliant flag that analyze_compliance
\* returns for that article, and check_all_articles returns the overall
\* verdict of analyze_compliance over all supported articles.
C26_EnginesAgree ==
    /\ (Checked /\ check_result.article \in DOMAIN gdpr_articles) =>
          check_result.compliant
            = analyze_compliance(scan_results, Articles(<< check_result.article >>))
                .article_results[check_result.article].compliant
    /\ pc = "checked_all" =>
          all_results.overall_compliant
            = analyze_compliance(scan_results, NoArticles).overall_compliance


\* C27: when reading one commit's record fails during the walk (outside the
\* diff step), a scan that returns a result has still visited the commits
\* that follow it in the traversal, up to the cap.
C27_ReadFailureDoesNotCutScan ==
    Scanned =>
        \A i \in 1..Len(repo.commits) :
            (repo.commits[i].stats_fail /\ \A h \in 1..(i - 1) : ~repo.commits[h].stats_fail) =>
                \A j \in (i + 1)..Len(repo.commits) :
                    (j <= CommitLimit /\ ~repo.commits[j].stats_fail) =>
                        \E k \in DOMAIN Records : Records[k].hash = repo.commits[j].hexsha


\* the emails the pattern matcher found in the messages and diffs of the
\* collected records
MatchedEmails == UNION { Range(Records[i].personal_data_found.emails) : i \in DOMAIN Records }

\* the listed countries of a set of email addresses
CountriesOf(emails) == { CountryOfEmail[e] : e \in emails } \ { "" }

\* the email addresses of the author and committer identities of the records
IdentityEmails == { Records[i].author.email : i \in DOMAIN Records }
                  \cup { Records[i].committer.email : i \in DOMAIN Records }

\* C28: the emails of the ScanResult are exactly those the pattern matcher
\* found in messages and diffs; the addresses of author and committer
\* identities do not enter them or the country detection, so a
\* multi_country_contributors indicator needs matched emails of two
\* countries, whatever the identities' addresses are.
C28_IdentityEmailsNotInDetection ==
    Scanned =>
        /\ Range(scan_results.personal_data.emails) = MatchedEmails
        /\ (IdentityEmails \ MatchedEmails) \cap Range(scan_results.personal_data.emails) = {}
        /\ Cardinality(CountriesOf(MatchedEmails)) < 2 =>
              IndicatorsOfType("multi_country_contributors") = {}

\* the authors of the scanned commits use addresses of two listed
\* countries, no message or diff holds an email, and the scan reports no
\* multi_country_contributors indicator
C28_Witness ==
    /\ Scanned
    /\ Len(Records) >= 2
    /\ Cardinality(CountriesOf({ Records[i].author.email : i \in DOMAIN Records })) >= 2
    /\ MatchedEmails = {}
    /\ \A i \in DOMAIN Records : repo.commits[i].message.emails = <<>>
                                  /\ \A k \in DOMAIN repo.commits[i].diff :
                                        repo.commits[i].diff[k].text.emails = <<>>
    /\ scan_results.personal_data.emails = <<>>
    /\ scan_results.cross_border_indicators = << PlatformTransfer >>


\* C29: under every interleaving of the GUI thread and the Worker thread,
\* every report written by Model.generate_report pairs a scan result and a
\* compliance result of the same run_scan.
C29_ReportFromOneRun ==
    \A report \in reports : report.scan = report.compliance

\* C30: at most one Worker runs at a time, and whenever start_scan has
\* disabled the scan button, scan_complete or scan_error enables it again
\* later, whatever the articles field holds.
C30_OneWorkerAndButtonReenabled ==
    /\ [](Cardinality(workers) <= 1)
    /\ (~scan_button_enabled) ~> scan_button_enabled

====
